---- MODULE Spec2Model ----
(***************************************************************************)
(* Model of the calculator engine of demo-vanilla-calculator: the          *)
(* Calculator class and the CalculatorUtils helpers.                       *)
(*                                                                         *)
(* Strings are sequences of one-character strings.  A JavaScript number is *)
(* a record: a finite value [k |-> "fin", neg, m, e] stands for            *)
(* (-1)^neg * m * 10^e with m a sequence of decimal digits (most           *)
(* significant first, no leading and no trailing zero; zero is m = <<>>),  *)
(* or one of NaN, +/-Infinity, undefined, null.  IEEE-754 binary64 is      *)
(* approximated by decimal floating point with DoubleDigits significant    *)
(* digits (round to nearest, ties to even) and the exponent range of a     *)
(* double.                                                                 *)
(*                                                                         *)
(* Intermediate values are handed on as operator arguments rather than     *)
(* named in LET, which keeps each definition small when expanded.          *)
(***************************************************************************)
EXTENDS Integers, Sequences, FiniteSets, TLC

(***************************************************************************)
(* Bounds of the number model                                              *)
(***************************************************************************)
\* significant decimal digits kept by an arithmetic result (binary64: 15.95)
DoubleDigits == 16
\* largest decimal exponent of a finite double (Number.MAX_VALUE ~ 1.8e308)
MaxExp10 == 308
\* exponents written with more digits than this are out of range either way
MaxExpDigits == 5

(***************************************************************************)
(* Natural numbers as sequences of decimal digits, most significant first  *)
(***************************************************************************)
Min(a, b) == IF a < b THEN a ELSE b
Max(a, b) == IF a > b THEN a ELSE b

\* the sequence f of length n, each element computed once
AsTuple(f, n) == SubSeq(f, 1, n)

Zeros(n) == AsTuple([i \in 1..n |-> 0], n)

StripLead(d) ==
    IF \A i \in 1..Len(d) : d[i] = 0 THEN <<>>
    ELSE SubSeq(d, CHOOSE i \in 1..Len(d) : d[i] # 0 /\ \A j \in 1..(i - 1) : d[j] = 0, Len(d))

StripTrail(d) ==
    IF \A i \in 1..Len(d) : d[i] = 0 THEN <<>>
    ELSE SubSeq(d, 1, CHOOSE i \in 1..Len(d) : d[i] # 0 /\ \A j \in (i + 1)..Len(d) : d[j] = 0)

PadLeft(d, n) == Zeros(n - Len(d)) \o d

\* -1, 0, 1 as a < b, a = b, a > b, for a and b without leading zeros
CmpStripped(a, b) ==
    IF Len(a) # Len(b) THEN (IF Len(a) < Len(b) THEN -1 ELSE 1)
    ELSE IF a = b THEN 0
    ELSE IF \E i \in 1..Len(a) : a[i] < b[i] /\ \A j \in 1..(i - 1) : a[j] = b[j] THEN -1
    ELSE 1

BigCmp(a, b) == CmpStripped(StripLead(a), StripLead(b))

\* a + b on sequences of length n: position i receives a carry iff a lower
\* position overflows and every position in between is full
AddPadded(a, b, n) ==
    StripLead(AsTuple([i \in 1..n |->
        (a[i] + b[i]
         + (IF \E j \in (i + 1)..n : /\ a[j] + b[j] >= 10
                                     /\ \A k \in (i + 1)..(j - 1) : a[k] + b[k] = 9
            THEN 1 ELSE 0)) % 10], n))

BigAdd(a, b) ==
    IF a = <<>> THEN StripLead(b)
    ELSE IF b = <<>> THEN StripLead(a)
    ELSE
    AddPadded(PadLeft(a, Max(Len(a), Len(b)) + 1), PadLeft(b, Max(Len(a), Len(b)) + 1),
              Max(Len(a), Len(b)) + 1)

\* a - b on sequences of length n, a >= b: position i lends iff a lower position
\* is short and every position in between is level
SubPadded(a, b, n) ==
    StripLead(AsTuple([i \in 1..n |->
        (a[i] - b[i] + 10
         - (IF \E j \in (i + 1)..n : /\ a[j] < b[j]
                                     /\ \A k \in (i + 1)..(j - 1) : a[k] = b[k]
            THEN 1 ELSE 0)) % 10], n))

BigSub(a, b) ==
    IF b = <<>> THEN StripLead(a)
    ELSE
    SubPadded(PadLeft(a, Max(Len(a), Len(b))), PadLeft(b, Max(Len(a), Len(b))),
              Max(Len(a), Len(b)))

\* d + 1 for a digit sequence d
IncDigits(d) ==
    IF \A i \in 1..Len(d) : d[i] = 9 THEN <<1>> \o Zeros(Len(d))
    ELSE AsTuple([i \in 1..Len(d) |->
                     IF \A j \in i..Len(d) : d[j] = 9 THEN 0
                     ELSE IF \A j \in (i + 1)..Len(d) : d[j] = 9 THEN d[i] + 1
                     ELSE d[i]], Len(d))

\* the sum of the products a[i] * b[k + 1 - i] for i in lo..hi, by halves
RECURSIVE ColumnSum(_, _, _, _, _)
ColumnSum(a, b, k, lo, hi) ==
    IF lo > hi THEN 0
    ELSE IF lo = hi THEN a[lo] * b[k + 1 - lo]
    ELSE ColumnSum(a, b, k, lo, (lo + hi) \div 2)
         + ColumnSum(a, b, k, (lo + hi) \div 2 + 1, hi)

\* column k of the long multiplication
MulColumn(a, b, k) == ColumnSum(a, b, k, Max(1, k + 1 - Len(b)), Min(Len(a), k))

MulColumns(a, b, n) == AsTuple([k \in 1..n |-> MulColumn(a, b, k)], n)

\* the digits of weight 10^p of the column sums, as a number
ColumnPlane(c, n, p) == AsTuple([k \in 1..n |-> (c[k] \div 10^p) % 10], n) \o Zeros(p)

\* columns below 10 are the digits of the product; the column sums stay below
\* 10^4, so the product is the sum of four planes
SumColumns(c, n) ==
    IF \A k \in 1..n : c[k] < 10 THEN StripLead(c)
    ELSE
    BigAdd(BigAdd(ColumnPlane(c, n, 0), ColumnPlane(c, n, 1)),
           BigAdd(ColumnPlane(c, n, 2), ColumnPlane(c, n, 3)))

BigMul(a, b) ==
    IF a = <<>> \/ b = <<>> THEN <<>>
    ELSE SumColumns(MulColumns(a, b, Len(a) + Len(b) - 1), Len(a) + Len(b) - 1)

\* the value of a short digit sequence as an integer, and back
RECURSIVE DigitsValue(_, _, _)
DigitsValue(d, lo, hi) ==
    IF lo > hi THEN 0
    ELSE IF lo = hi THEN d[lo]
    ELSE DigitsValue(d, lo, (lo + hi) \div 2) * 10^(hi - (lo + hi) \div 2)
         + DigitsValue(d, (lo + hi) \div 2 + 1, hi)

DigitsToInt(d) == DigitsValue(d, 1, Len(d))

IntToDigits(n) ==
    StripLead(AsTuple([j \in 1..10 |-> (n \div 10^(10 - j)) % 10], 10))

\* the leading digits of d as an integer, dropping the last k digits
LeadingInt(d, k) == DigitsToInt(SubSeq(d, 1, Len(d) - k))

\* the largest c in lo..hi with c * b <= r, given lo * b <= r
QuotBetween(r, b, lo, hi) ==
    lo + Cardinality({c \in (lo + 1)..hi : BigCmp(BigMul(b, <<c>>), r) # 1})

\* the digit r \div b for b <= r < 10 * b (no leading zeros): the leading
\* eight digits of r and the matching digits of b bracket it
QuotEstimate(r, b, rt, bt) ==
    QuotBetween(r, b, rt \div (bt + 1), Min(9, (rt + 1) \div bt))

QuotDigit(r, b) ==
    IF CmpStripped(r, b) = -1 THEN 0
    ELSE QuotEstimate(r, b, LeadingInt(r, Max(0, Len(r) - 8)), LeadingInt(b, Max(0, Len(r) - 8)))

\* long division of a by b # 0 (b without leading zeros): <<quotient, remainder>>;
\* st holds the remainder r and the quotient digits q produced so far, the
\* leading Len(b) - 1 digits of a giving quotient digits 0; four digits a level
DivEmit(r, b, q, d) ==
    [r |-> IF d = 0 THEN r ELSE BigSub(r, BigMul(b, <<d>>)), q |-> q \o <<d>>]

DivDigit(r, b, q) == DivEmit(r, b, q, QuotDigit(r, b))

DivStep(a, b, st) ==
    IF Len(st.q) = Len(a) THEN st
    ELSE DivDigit(StripLead(st.r \o <<a[Len(st.q) + 1]>>), b, st.q)

RECURSIVE DivRec(_, _, _)
DivRec(a, b, st) ==
    IF Len(st.q) = Len(a) THEN <<StripLead(st.q), st.r>>
    ELSE DivRec(a, b, DivStep(a, b, DivStep(a, b, DivStep(a, b, DivStep(a, b, st)))))

DivStart(a, n) == [r |-> StripLead(SubSeq(a, 1, n)), q |-> Zeros(n)]

BigDivMod(a, b) == DivRec(a, b, DivStart(a, Min(Len(a), Len(b) - 1)))

\* (20 * p + c) * c
RootTrial(p, c) == BigMul(BigMul(p, <<2>>) \o <<c>>, <<c>>)

\* the largest c in lo..hi with (20 * p + c) * c <= r, given that lo qualifies
RootBetween(p, r, lo, hi) ==
    lo + Cardinality({c \in (lo + 1)..hi : BigCmp(RootTrial(p, c), r) # 1})

\* rt and bt are the leading digits of r and of 20 * p: c is at most
\* r / (20 * p) and at least r / (20 * p + 9)
RootEstimate(p, r, rt, bt) ==
    IF bt = 0 THEN RootBetween(p, r, 0, 9)
    ELSE RootBetween(p, r, Min(9, rt \div (bt + 10)), Min(9, (rt + 1) \div bt))

\* b is 20 * p: a remainder shorter than b leaves the digit 0
RootDigit(p, r, k, b) ==
    IF Len(b) > Len(r) THEN 0
    ELSE RootEstimate(p, r, LeadingInt(r, k), LeadingInt(b, k))

\* digit-by-digit square root of a (an even number of digits): <<root, remainder>>;
\* st holds the root digits p produced so far and the remainder r
RootEmit(p, r, d) ==
    [p |-> p \o <<d>>, r |-> IF d = 0 THEN r ELSE BigSub(r, RootTrial(p, d))]

RootPair(p, r) ==
    RootEmit(p, r, RootDigit(p, r, Max(0, Len(r) - 8), StripLead(BigMul(p, <<2>>) \o <<0>>)))

RootStep(a, st) ==
    IF 2 * Len(st.p) = Len(a) THEN st
    ELSE RootPair(st.p, StripLead(st.r \o <<a[2 * Len(st.p) + 1], a[2 * Len(st.p) + 2]>>))

RECURSIVE RootRec(_, _)
RootRec(a, st) ==
    IF 2 * Len(st.p) = Len(a) THEN <<StripLead(st.p), st.r>>
    ELSE RootRec(a, RootStep(a, RootStep(a, RootStep(a, RootStep(a, st)))))

BigSqrtRem(a) == RootRec(a, [p |-> <<>>, r |-> <<>>])
(***************************************************************************)
(* JavaScript numbers                                                      *)
(***************************************************************************)
NaN == [k |-> "nan"]
Undefined == [k |-> "undef"]
Null == [k |-> "null"]
Inf(neg) == [k |-> "inf", neg |-> neg]
Zero == [k |-> "fin", neg |-> FALSE, m |-> <<>>, e |-> 0]

\* Number.MAX_VALUE = 1.7976931348623157e308
MaxDoubleMantissa == <<1, 7, 9, 7, 6, 9, 3, 1, 3, 4, 8, 6, 2, 3, 1, 5, 7>>
\* decimal exponent below which a double underflows to zero (5e-324)
MinExp10 == -(MaxExp10 + DoubleDigits)

IsFin(x) == x.k = "fin"
IsZero(x) == x.k = "fin" /\ x.m = <<>>

\* exponent of the leading digit of a non-zero finite number
TopExp(x) == Len(x.m) + x.e - 1

\* m * 10^e with m canonical, or what it overflows or underflows to
Ranged(neg, m, e) ==
    IF m = <<>> THEN Zero
    ELSE IF Len(m) + e - 1 > MaxExp10
            \/ (Len(m) + e - 1 = MaxExp10
                /\ BigCmp(m \o Zeros(Len(MaxDoubleMantissa) - Len(m)), MaxDoubleMantissa) = 1)
         THEN Inf(neg)
    ELSE IF Len(m) + e - 1 < MinExp10 THEN Zero
    ELSE [k |-> "fin", neg |-> neg, m |-> m, e |-> e]

Normalized(neg, m, e) == Ranged(neg, StripTrail(m), e + (Len(m) - Len(StripTrail(m))))

\* does m (more than DoubleDigits digits, plus a non-zero tail when sticky)
\* round up: nearest, ties to even
RoundsUp(m, sticky) ==
    \/ m[DoubleDigits + 1] > 5
    \/ /\ m[DoubleDigits + 1] = 5
       /\ \/ sticky
          \/ \E j \in (DoubleDigits + 2)..Len(m) : m[j] # 0
          \/ m[DoubleDigits] % 2 = 1

RoundDouble(neg, m, e, sticky) ==
    Normalized(neg,
               IF Len(m) <= DoubleDigits THEN m
               ELSE IF RoundsUp(m, sticky) THEN IncDigits(SubSeq(m, 1, DoubleDigits))
               ELSE SubSeq(m, 1, DoubleDigits),
               IF Len(m) <= DoubleDigits THEN e ELSE e + (Len(m) - DoubleDigits))

\* the double nearest to (-1)^neg * m * 10^e (plus a non-zero tail when sticky)
MkNumS(neg, m, e, sticky) ==
    IF m = <<>> THEN Zero ELSE RoundDouble(neg, StripLead(m), e, sticky)

MkNum(neg, m, e) == MkNumS(neg, m, e, FALSE)

\* a small natural number as a double
NumOfInt(n) == MkNum(FALSE, IntToDigits(n), 0)

\* ToNumber: undefined is NaN, null is 0
ToNumber(v) ==
    IF v.k = "undef" THEN NaN ELSE IF v.k = "null" THEN Zero ELSE v

\* isNaN(v), isFinite(v) (both coerce with ToNumber)
IsNaN(v) == v.k = "nan" \/ v.k = "undef"
IsFinite(v) == v.k = "fin" \/ v.k = "null"

NumNeg(x) ==
    IF x.k = "fin" THEN (IF x.m = <<>> THEN x ELSE [x EXCEPT !.neg = ~x.neg])
    ELSE IF x.k = "inf" THEN Inf(~x.neg)
    ELSE x

NumAbs(x) ==
    IF x.k = "fin" THEN [x EXCEPT !.neg = FALSE]
    ELSE IF x.k = "inf" THEN Inf(FALSE)
    ELSE x

\* value < 0, value > 0 (false for NaN)
NumIsNeg(x) == (x.k = "fin" /\ x.m # <<>> /\ x.neg) \/ (x.k = "inf" /\ x.neg)
NumIsPos(x) == (x.k = "fin" /\ x.m # <<>> /\ ~x.neg) \/ (x.k = "inf" /\ ~x.neg)

\* the sum of (-1)^xneg * mx * 10^e and (-1)^yneg * my * 10^e, c = BigCmp(mx, my)
AddMantissas(xneg, yneg, mx, my, e, c) ==
    MkNum(IF xneg = yneg \/ c = 1 THEN xneg ELSE yneg,
          IF xneg = yneg THEN BigAdd(mx, my)
          ELSE IF c = 1 THEN BigSub(mx, my)
          ELSE BigSub(my, mx),
          e)

AddCompared(xneg, yneg, mx, my, e) ==
    AddMantissas(xneg, yneg, mx, my, e, CmpStripped(mx, my))

AddAligned(x, y, e) ==
    AddCompared(x.neg, y.neg, x.m \o Zeros(x.e - e), y.m \o Zeros(y.e - e), e)

\* x + y for finite non-zero x, y with TopExp(x) >= TopExp(y): an addend too
\* small to reach the guard digits acts only on the rounding
FinAddOrdered(x, y) ==
    AddAligned(x,
               IF TopExp(x) - TopExp(y) > DoubleDigits + 2
               THEN [y EXCEPT !.m = <<1>>, !.e = TopExp(x) - DoubleDigits - 3]
               ELSE y,
               IF TopExp(x) - TopExp(y) > DoubleDigits + 2
               THEN Min(x.e, TopExp(x) - DoubleDigits - 3)
               ELSE Min(x.e, y.e))

AddNumbers(x, y) ==
    IF x.k = "nan" \/ y.k = "nan" THEN NaN
    ELSE IF x.k = "inf" /\ y.k = "inf" THEN (IF x.neg = y.neg THEN x ELSE NaN)
    ELSE IF x.k = "inf" THEN x
    ELSE IF y.k = "inf" THEN y
    ELSE IF x.m = <<>> THEN y
    ELSE IF y.m = <<>> THEN x
    ELSE FinAddOrdered(IF TopExp(x) >= TopExp(y) THEN x ELSE y,
                       IF TopExp(x) >= TopExp(y) THEN y ELSE x)

NumAdd(x, y) == AddNumbers(ToNumber(x), ToNumber(y))

NumSub(x, y) == AddNumbers(ToNumber(x), NumNeg(ToNumber(y)))

MulNumbers(x, y) ==
    IF x.k = "nan" \/ y.k = "nan" THEN NaN
    ELSE IF x.k = "inf" \/ y.k = "inf"
         THEN (IF IsZero(x) \/ IsZero(y) THEN NaN ELSE Inf(x.neg # y.neg))
    ELSE IF x.m = <<>> \/ y.m = <<>> THEN Zero
    ELSE MkNum(x.neg # y.neg, BigMul(x.m, y.m), x.e + y.e)

NumMul(x, y) == MulNumbers(ToNumber(x), ToNumber(y))

\* the quotient of the mantissas, the dividend extended by sh guard digits
DivRounded(neg, qr, e) == MkNumS(neg, qr[1], e, qr[2] # <<>>)

DivShifted(x, y, sh) ==
    DivRounded(x.neg # y.neg, BigDivMod(x.m \o Zeros(sh), y.m), x.e - y.e - sh)

DivNumbers(x, y) ==
    IF x.k = "nan" \/ y.k = "nan" THEN NaN
    ELSE IF x.k = "inf" THEN (IF y.k = "inf" THEN NaN ELSE Inf(x.neg # y.neg))
    ELSE IF y.k = "inf" THEN Zero
    ELSE IF y.m = <<>> THEN (IF x.m = <<>> THEN NaN ELSE Inf(x.neg))
    ELSE IF x.m = <<>> THEN Zero
    ELSE DivShifted(x, y, Max(0, DoubleDigits + 2 + Len(y.m) - Len(x.m)))

NumDiv(x, y) == DivNumbers(ToNumber(x), ToNumber(y))

\* the root of m * 10^e, m with an even number of digits and e even
RootRounded(rr, e) == MkNumS(FALSE, rr[1], e, rr[2] # <<>>)

RootShifted(m, e, sh) ==
    RootRounded(BigSqrtRem((IF Len(m) % 2 = 1 THEN <<0>> ELSE <<>>) \o m \o Zeros(2 * sh)),
                (e - 2 * sh) \div 2)

RootEven(m, e) == RootShifted(m, e, Max(0, DoubleDigits + 2 - Len(m) \div 2))

\* Math.sqrt
NumSqrt(x) ==
    IF IsNaN(x) \/ NumIsNeg(x) THEN NaN
    ELSE IF x.k = "null" THEN Zero
    ELSE IF x.k = "inf" \/ x.m = <<>> THEN x
    ELSE RootEven(IF x.e % 2 # 0 THEN x.m \o <<0>> ELSE x.m,
                  IF x.e % 2 # 0 THEN x.e - 1 ELSE x.e)

\* x === y on numbers (NaN differs from itself)
NumEq(x, y) == x.k # "nan" /\ x = y

(***************************************************************************)
(* Strings (sequences of characters) and the conversions between numbers   *)
(* and strings                                                             *)
(***************************************************************************)
DigitChars == <<"0", "1", "2", "3", "4", "5", "6", "7", "8", "9">>
IsDigitChar(c) == \E i \in 1..10 : DigitChars[i] = c
DigitOfChar(c) == (CHOOSE i \in 1..10 : DigitChars[i] = c) - 1
CharsOfDigits(d) == AsTuple([i \in 1..Len(d) |-> DigitChars[d[i] + 1]], Len(d))
DigitsOfChars(s) == AsTuple([i \in 1..Len(s) |-> DigitOfChar(s[i])], Len(s))

\* String.prototype.includes for a single character
Includes(s, c) == \E i \in 1..Len(s) : s[i] = c

\* number of c characters in s
CountChar(s, c) == Cardinality({i \in 1..Len(s) : s[i] = c})

\* s with every c removed: s.replace(/c/g, '')
RemoveChar(s, c) == SelectSeq(s, LAMBDA ch : ch # c)

\* length of the run of digit characters of s that starts at position p
DigitRun(s, p) ==
    IF \A j \in p..Len(s) : IsDigitChar(s[j]) THEN Max(0, Len(s) - p + 1)
    ELSE (CHOOSE j \in p..Len(s) :
             ~IsDigitChar(s[j]) /\ \A k \in p..(j - 1) : IsDigitChar(s[k])) - p

CharAt(s, i) == IF i >= 1 /\ i <= Len(s) THEN s[i] ELSE ""

InfinityChars == <<"I", "n", "f", "i", "n", "i", "t", "y">>

SignChars(neg) == IF neg THEN <<"-">> ELSE <<>>

\* the double written as the digits m with decimal exponent e
ParseValue(neg, m, e) ==
    IF m = <<>> THEN Zero
    ELSE IF e + Len(m) - 1 > MaxExp10 THEN Inf(neg)
    ELSE IF e + Len(m) - 1 < MinExp10 THEN Zero
    ELSE MkNum(neg, m, e)

\* the value of the digits of an exponent part
ExpValue(ed) == IF Len(ed) > MaxExpDigits THEN 10^MaxExpDigits ELSE DigitsToInt(ed)

\* the exponent part that starts at position pe of s, if there is one
ParseExponent(s, pe, pd, n3) ==
    IF ~(CharAt(s, pe) = "e" \/ CharAt(s, pe) = "E") \/ n3 = 0 THEN 0
    ELSE IF CharAt(s, pe + 1) = "-"
         THEN -ExpValue(StripLead(DigitsOfChars(SubSeq(s, pd, pd + n3 - 1))))
    ELSE ExpValue(StripLead(DigitsOfChars(SubSeq(s, pd, pd + n3 - 1))))

ParseExponentAt(s, pe, pd) == ParseExponent(s, pe, pd, DigitRun(s, pd))

\* the literal with n1 integer digits from position p0 and n2 fraction digits
ParseDigits(s, neg, p0, n1, n2, pe) ==
    IF n1 + n2 = 0 THEN NaN
    ELSE ParseValue(neg,
                    StripLead(DigitsOfChars(SubSeq(s, p0, p0 + n1 - 1)
                                            \o SubSeq(s, p0 + n1 + 1, p0 + n1 + n2))),
                    ParseExponentAt(s, pe,
                        IF CharAt(s, pe + 1) = "-" \/ CharAt(s, pe + 1) = "+"
                        THEN pe + 2 ELSE pe + 1) - n2)

ParseFraction(s, neg, p0, n1, n2) ==
    ParseDigits(s, neg, p0, n1, n2,
                p0 + n1 + (IF CharAt(s, p0 + n1) = "." THEN 1 + n2 ELSE 0))

ParseInteger(s, neg, p0, n1) ==
    ParseFraction(s, neg, p0, n1,
                  IF CharAt(s, p0 + n1) = "." THEN DigitRun(s, p0 + n1 + 1) ELSE 0)

ParseUnsigned(s, neg, p0) ==
    IF SubSeq(s, p0, Min(Len(s), p0 + 7)) = InfinityChars THEN Inf(neg)
    ELSE ParseInteger(s, neg, p0, DigitRun(s, p0))

\* parseFloat(s): the longest prefix of s that is a decimal literal
ParseFloat(s) ==
    ParseUnsigned(s, CharAt(s, 1) = "-",
                  IF CharAt(s, 1) = "-" \/ CharAt(s, 1) = "+" THEN 2 ELSE 1)

\* the decimal digits of an integer exponent, with its sign
ExpChars(n) ==
    (IF n < 0 THEN <<"e", "-">> ELSE <<"e", "+">>)
        \o (IF n = 0 THEN <<"0">> ELSE CharsOfDigits(IntToDigits(IF n < 0 THEN -n ELSE n)))

\* the digit characters d of a positive number whose decimal point follows
\* the n-th digit, as Number.prototype.toString writes them
DigitsToString(d, n) ==
    IF Len(d) <= n /\ n <= 21 THEN d \o CharsOfDigits(Zeros(n - Len(d)))
    ELSE IF 0 < n /\ n <= 21 THEN SubSeq(d, 1, n) \o <<".">> \o SubSeq(d, n + 1, Len(d))
    ELSE IF -6 < n /\ n <= 0 THEN <<"0", ".">> \o CharsOfDigits(Zeros(-n)) \o d
    ELSE IF Len(d) = 1 THEN d \o ExpChars(n - 1)
    ELSE <<d[1], ".">> \o SubSeq(d, 2, Len(d)) \o ExpChars(n - 1)

\* Number.prototype.toString / String(v)
NumToString(x) ==
    IF x.k = "nan" THEN <<"N", "a", "N">>
    ELSE IF x.k = "undef" THEN <<"u", "n", "d", "e", "f", "i", "n", "e", "d">>
    ELSE IF x.k = "null" THEN <<"n", "u", "l", "l">>
    ELSE IF x.k = "inf" THEN SignChars(x.neg) \o InfinityChars
    ELSE IF x.m = <<>> THEN <<"0">>
    ELSE SignChars(x.neg) \o DigitsToString(CharsOfDigits(x.m), Len(x.m) + x.e)

\* the integer nearest to m * 10^e for e < 0, ties away from zero, as digits
RoundHalfUpDigits(m, e) ==
    IF Len(m) + e >= 0 /\ m[Len(m) + e + 1] >= 5
    THEN IncDigits(SubSeq(m, 1, Len(m) + e))
    ELSE SubSeq(m, 1, Len(m) + e)

\* sign, f + 1 digits with a point after the first, and the exponent
ExponentialChars(neg, d, f, ex) ==
    SignChars(neg) \o <<d[1]>> \o (IF f > 0 THEN <<".">> \o SubSeq(d, 2, f + 1) ELSE <<>>)
        \o ExpChars(ex)

\* r is the mantissa rounded to f + 1 digits (one more if the rounding carried)
ExponentialRounded(x, f, r) ==
    ExponentialChars(x.neg, CharsOfDigits(r), f,
                     TopExp(x) + (IF Len(r) > f + 1 THEN 1 ELSE 0))

\* Number.prototype.toExponential(f) of a finite number
NumToExponential(x, f) ==
    IF x.m = <<>> THEN <<"0", ".">> \o CharsOfDigits(Zeros(f)) \o <<"e", "+", "0">>
    ELSE ExponentialRounded(x, f,
             IF Len(x.m) <= f + 1 THEN x.m \o Zeros(f + 1 - Len(x.m))
             ELSE RoundHalfUpDigits(x.m, f + 1 - Len(x.m)))

\* the digit characters d with a point before the last f of them
FixedChars(neg, d, f) ==
    SignChars(neg) \o SubSeq(d, 1, Len(d) - f)
        \o (IF f > 0 THEN <<".">> \o SubSeq(d, Len(d) - f + 1, Len(d)) ELSE <<>>)

\* n is the number scaled by 10^f and rounded to an integer
FixedRounded(neg, n, f) ==
    FixedChars(neg, CharsOfDigits(PadLeft(n, Max(Len(n), f + 1))), f)

\* Number.prototype.toFixed(f) of a finite number
NumToFixed(x, f) ==
    IF x.m = <<>> THEN FixedRounded(FALSE, <<>>, f)
    ELSE IF TopExp(x) >= 21 THEN NumToString(x)
    ELSE FixedRounded(x.neg,
                      IF x.e + f >= 0 THEN x.m \o Zeros(x.e + f)
                      ELSE RoundHalfUpDigits(x.m, x.e + f),
                      f)

\* is the fraction of x (x.e < 0) rounded up in magnitude by Math.round:
\* ties go toward +Infinity
RoundsAway(x) ==
    /\ Len(x.m) + x.e >= 0
    /\ x.m[Len(x.m) + x.e + 1] >= 5
    /\ ~(x.neg /\ x.m[Len(x.m) + x.e + 1] = 5 /\ x.e = -1)

\* Math.round: the nearest integer, ties toward +Infinity
MathRound(x) ==
    IF x.k = "undef" THEN NaN
    ELSE IF x.k = "null" THEN Zero
    ELSE IF x.k # "fin" \/ x.m = <<>> \/ x.e >= 0 THEN x
    ELSE Normalized(x.neg,
                    IF RoundsAway(x) THEN IncDigits(SubSeq(x.m, 1, Max(0, Len(x.m) + x.e)))
                    ELSE SubSeq(x.m, 1, Max(0, Len(x.m) + x.e)),
                    0)

\* Math.floor(Math.abs(x)) of a finite number
FloorAbs(x) ==
    IF x.m = <<>> \/ x.e >= 0 THEN NumAbs(x)
    ELSE Normalized(FALSE, SubSeq(x.m, 1, Max(0, Len(x.m) + x.e)), 0)

\* Math.pow(10, n)
Pow10(n) == [k |-> "fin", neg |-> FALSE, m |-> <<1>>, e |-> n]

\* s.replace(/\.?0+$/, ''): the trailing zeros of s and a point before them
StripZerosRegex(s) ==
    IF s = <<>> \/ s[Len(s)] # "0" THEN s
    ELSE IF \A i \in 1..Len(s) : s[i] = "0" THEN <<>>
    ELSE SubSeq(s, 1,
                (CHOOSE i \in 1..Len(s) : s[i] # "0" /\ \A j \in (i + 1)..Len(s) : s[j] = "0")
                - (IF \E i \in 1..Len(s) : s[i] = "." /\ \A j \in (i + 1)..Len(s) : s[j] = "0"
                   THEN 1 ELSE 0))

ErrorText == <<"E", "r", "r", "o", "r">>

\* formatResult, when the rounded value does not fit maxDigits characters
formatTruncated(rounded, availableDecimals) ==
    IF availableDecimals > 0 THEN StripZerosRegex(NumToFixed(rounded, availableDecimals))
    ELSE NumToString(MathRound(rounded))

\* formatted is rounded.toString() without its trailing zeros
formatChecked(rounded, formatted, maxDigits) ==
    IF Len(formatted) > maxDigits
    THEN formatTruncated(rounded, maxDigits - Len(NumToString(FloorAbs(rounded))))
    ELSE formatted

formatString(rounded, str, maxDigits) ==
    IF Includes(str, ".") THEN formatChecked(rounded, StripZerosRegex(str), maxDigits)
    ELSE formatChecked(rounded, str, maxDigits)

formatRounded(rounded, maxDigits) == formatString(rounded, NumToString(rounded), maxDigits)

\* a formatter without the exponential branch: the fault the overflow path of
\* C24 has to exclude
formatResultFixedOnly(result, maxDigits) ==
    IF ~IsFinite(result) THEN ErrorText
    ELSE formatRounded(NumDiv(MathRound(NumMul(result, Pow10(10))), Pow10(10)), maxDigits)

\* CalculatorUtils.formatResult(result, maxDigits)
formatResult(result, maxDigits) ==
    IF ~IsFinite(result) THEN ErrorText
    ELSE IF result.k = "fin" /\ result.m # <<>> /\ TopExp(result) >= maxDigits
         THEN NumToExponential(result, 6)
    ELSE formatRounded(NumDiv(MathRound(NumMul(result, Pow10(10))), Pow10(10)), maxDigits)

(***************************************************************************)
(* CalculatorUtils predicates                                              *)
(***************************************************************************)
\* the operator symbols '+', U+2212, U+00D7, U+00F7 are written "+", "-", "*", "/"
isValidNumber(number) == IsDigitChar(number)
isValidOperator(operator) == operator \in {"+", "-", "*", "/"}
\* a length test against the precision itself, which an error message on the
\* display fails: the fault the recovery by a digit of C34 has to exclude
validateInputLengthStrict(input, maxDigits) == Len(input) <= maxDigits
validateInputLength(input, maxDigits) == Len(input) <= maxDigits * 2 + 10

(***************************************************************************)
(* Calculator state.  The handlers are written as functions of a record s  *)
(* holding the fields of the Calculator instance, so that a handler that   *)
(* calls another one composes them.  decimalPlaces and isOverflow are      *)
(* written but never read by the code and are left out.                    *)
(***************************************************************************)
NullOp == "null"

MsgInputTooLong == <<"I", "n", "p", "u", "t", " ", "t", "o", "o", " ", "l", "o", "n", "g", ".", " ", "M", "a", "x", "i", "m", "u", "m", " ", "l", "e", "n", "g", "t", "h", " ", "e", "x", "c", "e", "e", "d", "e", "d", ".">>
MsgInvalidInput == <<"I", "n", "v", "a", "l", "i", "d", " ", "i", "n", "p", "u", "t">>
MsgDivideByZero == <<"C", "a", "n", "n", "o", "t", " ", "d", "i", "v", "i", "d", "e", " ", "b", "y", " ", "z", "e", "r", "o">>
MsgInvalidResult == <<"I", "n", "v", "a", "l", "i", "d", " ", "r", "e", "s", "u", "l", "t">>
MsgOverflow == <<"O", "v", "e", "r", "f", "l", "o", "w">>
ErrorMessages == {MsgInputTooLong, MsgInvalidInput, MsgDivideByZero, MsgInvalidResult,
                  MsgOverflow, ErrorText}

\* CalculatorUtils.sanitizeOutput on a string: markup characters are removed
sanitizeOutput(value) == SelectSeq(value, LAMBDA c : c \notin {"<", ">", "\"", "'", "&"})

\* this.currentInput.replace(/\./g, '').length
getDisplayLength(s) == Len(RemoveChar(s.currentInput, "."))

\* updateDisplay: schedule one animation-frame callback unless one is pending
\* updateDisplay that requests no animation frame: the fault the rendering of
\* C39 has to exclude
updateDisplayUnscheduled(s) == s

updateDisplay(s) ==
    IF s.pendingDisplayUpdate THEN s ELSE [s EXCEPT !.pendingDisplayUpdate = TRUE]

\* _performDisplayUpdate, run by the animation-frame callback
performDisplayUpdate(s) ==
    [s EXCEPT !.displayText = sanitizeOutput(s.currentInput),
              !.displayInvalid = s.isError,
              !.pendingDisplayUpdate = FALSE]

\* a reset that takes the memory with it: the fault the memory frame of C16 has
\* to exclude
clearWithMemory(s) ==
    updateDisplay([s EXCEPT !.currentInput = <<"0">>,
                            !.previousInput = Null,
                            !.operator = NullOp,
                            !.waitingForOperand = FALSE,
                            !.isError = FALSE,
                            !.hasDecimal = FALSE,
                            !.memory = Zero,
                            !.memoryActive = FALSE])

\* a reset of the entry only: the fault the reset of C18 has to exclude
clearDisplayOnly(s) ==
    updateDisplay([s EXCEPT !.currentInput = <<"0">>, !.hasDecimal = FALSE])

clear(s) ==
    updateDisplay([s EXCEPT !.currentInput = <<"0">>,
                            !.previousInput = Null,
                            !.operator = NullOp,
                            !.waitingForOperand = FALSE,
                            !.isError = FALSE,
                            !.hasDecimal = FALSE])

\* showError arms a fire-and-forget timer that clears if still in error.  The
\* timers all have the same delay, so they are kept in the order they fire.
\* errorEpisode is a history variable the code does not have: it counts the
\* entries into the error state, and each timer remembers the entry that armed it
showError(s, message) ==
    LET episode == IF s.isError THEN s.errorEpisode ELSE s.errorEpisode + 1
        s1 == updateDisplay([s EXCEPT !.isError = TRUE, !.currentInput = message])
    IN  [s1 EXCEPT !.errorEpisode = episode, !.timers = Append(@, episode)]

\* a callback that never clears: the fault the auto-recovery of C11 has to exclude
errorTimeoutIdle(s) == [s EXCEPT !.timers = Tail(@)]

\* a callback that clears without looking at isError: the fault the guard of C13
\* has to exclude
errorTimeoutUnguarded(s) == clear([s EXCEPT !.timers = Tail(@)])

\* the callback armed by showError
errorTimeout(s) ==
    LET s1 == [s EXCEPT !.timers = Tail(@)]
    IN  IF s1.isError THEN clear(s1) ELSE s1

\* an entry reset that drops the pending operation: the fault the frame of C19
\* has to exclude
clearEntryDroppingPending(s) ==
    updateDisplay([s EXCEPT !.currentInput = <<"0">>,
                            !.hasDecimal = FALSE,
                            !.previousInput = Null,
                            !.operator = NullOp])

clearEntry(s) ==
    updateDisplay([s EXCEPT !.currentInput = <<"0">>, !.hasDecimal = FALSE])

\* inputNumber with the budget test off by one (<= for <): the fault the digit
\* budget of C5 has to exclude
inputNumberOffByOne(s, number) ==
    LET s1 == IF s.isError THEN clear(s) ELSE s
        s2 == IF s1.waitingForOperand
              THEN [s1 EXCEPT !.currentInput = <<number>>,
                              !.waitingForOperand = FALSE,
                              !.hasDecimal = FALSE]
              ELSE IF s1.currentInput = <<"0">>
                   THEN [s1 EXCEPT !.currentInput = <<number>>]
              ELSE IF getDisplayLength(s1) <= s1.maxDigits
                   THEN [s1 EXCEPT !.currentInput = @ \o <<number>>]
              ELSE s1
    IN  IF ~isValidNumber(number) THEN s
        ELSE IF ~validateInputLength(IF s.waitingForOperand THEN <<number>>
                                     ELSE s.currentInput \o <<number>>, s.maxDigits)
             THEN showError(s, MsgInputTooLong)
        ELSE updateDisplay(s2)

\* inputNumber that raises an error on a full display instead of dropping the
\* digit: the fault the silent drop of C35 has to exclude
inputNumberRejecting(s, number) ==
    LET futureInput == IF s.waitingForOperand THEN <<number>>
                       ELSE s.currentInput \o <<number>>
        s1 == IF s.isError THEN clear(s) ELSE s
        s2 == IF s1.waitingForOperand
              THEN [s1 EXCEPT !.currentInput = <<number>>,
                              !.waitingForOperand = FALSE,
                              !.hasDecimal = FALSE]
              ELSE IF s1.currentInput = <<"0">>
                   THEN [s1 EXCEPT !.currentInput = <<number>>]
              ELSE IF getDisplayLength(s1) < s1.maxDigits
                   THEN [s1 EXCEPT !.currentInput = @ \o <<number>>]
              ELSE showError(s1, MsgInputTooLong)
    IN  IF ~isValidNumber(number) THEN s
        ELSE IF ~validateInputLength(futureInput, s.maxDigits)
             THEN showError(s, MsgInputTooLong)
        ELSE updateDisplay(s2)

inputNumber(s, number) ==
    LET futureInput == IF s.waitingForOperand THEN <<number>>
                       ELSE s.currentInput \o <<number>>
        s1 == IF s.isError THEN clear(s) ELSE s
        s2 == IF s1.waitingForOperand
              THEN [s1 EXCEPT !.currentInput = <<number>>,
                              !.waitingForOperand = FALSE,
                              !.hasDecimal = FALSE]
              ELSE IF s1.currentInput = <<"0">>
                   THEN [s1 EXCEPT !.currentInput = <<number>>]
              ELSE IF getDisplayLength(s1) < s1.maxDigits
                   THEN [s1 EXCEPT !.currentInput = @ \o <<number>>]
              ELSE s1
    IN  IF ~isValidNumber(number) THEN s
        ELSE IF ~validateInputLength(futureInput, s.maxDigits)
             THEN showError(s, MsgInputTooLong)
        ELSE updateDisplay(s2)

inputDecimal(s) ==
    LET futureInput == IF s.waitingForOperand THEN <<"0", ".">>
                       ELSE s.currentInput \o <<".">>
        s1 == IF s.isError THEN clear(s) ELSE s
        s2 == IF s1.waitingForOperand
              THEN [s1 EXCEPT !.currentInput = <<"0", ".">>,
                              !.waitingForOperand = FALSE,
                              !.hasDecimal = TRUE]
              ELSE IF ~s1.hasDecimal /\ getDisplayLength(s1) < s1.maxDigits
                   THEN [s1 EXCEPT !.currentInput = @ \o <<".">>, !.hasDecimal = TRUE]
              ELSE s1
    IN  IF ~validateInputLength(futureInput, s.maxDigits)
        THEN showError(s, MsgInputTooLong)
        ELSE updateDisplay(s2)

\* backspace that forgets the decimal flag when it removes the point: the
\* fault the backspace contract of C36 has to exclude
backspaceKeepingDecimal(s) ==
    IF s.isError THEN clear(s)
    ELSE IF Len(s.currentInput) > 1
         THEN updateDisplay([s EXCEPT !.currentInput = SubSeq(@, 1, Len(@) - 1)])
    ELSE updateDisplay([s EXCEPT !.currentInput = <<"0">>, !.hasDecimal = FALSE])

backspace(s) ==
    IF s.isError THEN clear(s)
    ELSE IF Len(s.currentInput) > 1
         THEN LET lastChar == s.currentInput[Len(s.currentInput)]
                  s1 == [s EXCEPT !.currentInput = SubSeq(@, 1, Len(@) - 1)]
              IN  updateDisplay(IF lastChar = "." THEN [s1 EXCEPT !.hasDecimal = FALSE]
                                ELSE s1)
    ELSE updateDisplay([s EXCEPT !.currentInput = <<"0">>, !.hasDecimal = FALSE])

\* `${prev} ${operator} ${current}`
buildExpression(prev, operator, current) ==
    NumToString(prev) \o <<" ", operator, " ">> \o NumToString(current)

\* the data-result attributes updateHistoryDisplay renders (the first 50 items)
updateHistoryDisplay(s) ==
    [s EXCEPT !.historyList =
        AsTuple([i \in 1..Min(Len(s.history), 50) |->
                    sanitizeOutput(NumToString(s.history[i].result))],
                Min(Len(s.history), 50))]

\* saveHistory: sessionStorage.setItem('calculator-history', ...)
saveHistory(s) == [s EXCEPT !.stored = [present |-> TRUE, items |-> s.history]]

\* a history that puts the new entry last: the fault the eviction order of C20
\* has to exclude
addToHistoryAppend(s, expression, result) ==
    LET item == [expression |-> expression, result |-> result]
        h1 == Append(s.history, item)
        h2 == IF Len(h1) > s.historyLimit THEN SubSeq(h1, 1, s.historyLimit) ELSE h1
        s1 == saveHistory([s EXCEPT !.history = h2])
    IN  IF s1.historyVisible THEN updateHistoryDisplay(s1) ELSE s1

addToHistory(s, expression, result) ==
    LET item == [expression |-> expression, result |-> result]
        h1 == <<item>> \o s.history
        h2 == IF Len(h1) > s.historyLimit THEN SubSeq(h1, 1, s.historyLimit) ELSE h1
        s1 == saveHistory([s EXCEPT !.history = h2])
    IN  IF s1.historyVisible THEN updateHistoryDisplay(s1) ELSE s1

\* calculate() that shows the result and leaves the operation pending: the
\* fault the post-state of C33 has to exclude
commitResultPending(s, prev, current, result, formatted) ==
    [updateDisplay(addToHistory(s, buildExpression(prev, s.operator, current), result))
        EXCEPT !.currentInput = formatted,
               !.waitingForOperand = TRUE,
               !.hasDecimal = Includes(formatted, ".")]

\* calculate(), past its checks: the result is shown and recorded (addToHistory
\* and updateDisplay read none of the five fields assigned before them)
commitResult(s, prev, current, result, formatted) ==
    [updateDisplay(addToHistory(s, buildExpression(prev, s.operator, current), result))
        EXCEPT !.currentInput = formatted,
               !.previousInput = Null,
               !.operator = NullOp,
               !.waitingForOperand = TRUE,
               !.hasDecimal = Includes(formatted, ".")]

finishCalculation(s, prev, current, result) ==
    IF ~IsFinite(result)
    THEN [s |-> showError(s, IF IsNaN(result) THEN MsgInvalidResult ELSE MsgOverflow),
          ret |-> Undefined]
    ELSE [s |-> commitResult(s, prev, current, result, formatResult(result, s.maxDigits)),
          ret |-> result]

\* calculate() without its division guard: the fault the division-by-zero
\* contract of C3 has to exclude
calculateUnguarded(s, prev, current) ==
    IF IsNaN(prev) \/ IsNaN(current)
    THEN [s |-> showError(s, MsgInvalidInput), ret |-> Undefined]
    ELSE IF ~isValidOperator(s.operator) THEN [s |-> s, ret |-> Undefined]
    ELSE finishCalculation(s, prev, current,
             CASE s.operator = "+" -> NumAdd(prev, current)
               [] s.operator = "-" -> NumSub(prev, current)
               [] s.operator = "*" -> NumMul(prev, current)
               [] OTHER -> NumDiv(prev, current))

\* calculate() with the operands of the subtraction and the division the
\* other way round: the fault the arithmetic of C27 has to exclude
calculateSwapped(s, prev, current) ==
    IF IsNaN(prev) \/ IsNaN(current)
    THEN [s |-> showError(s, MsgInvalidInput), ret |-> Undefined]
    ELSE IF ~isValidOperator(s.operator) THEN [s |-> s, ret |-> Undefined]
    ELSE IF s.operator = "/" /\ IsZero(current)
         THEN [s |-> showError(s, MsgDivideByZero), ret |-> Undefined]
    ELSE finishCalculation(s, prev, current,
             CASE s.operator = "+" -> NumAdd(prev, current)
               [] s.operator = "-" -> NumSub(current, prev)
               [] s.operator = "*" -> NumMul(prev, current)
               [] OTHER -> NumDiv(current, prev))

calculateOperands(s, prev, current) ==
    IF IsNaN(prev) \/ IsNaN(current)
    THEN [s |-> showError(s, MsgInvalidInput), ret |-> Undefined]
    ELSE IF ~isValidOperator(s.operator) THEN [s |-> s, ret |-> Undefined]
    ELSE IF s.operator = "/" /\ IsZero(current)
         THEN [s |-> showError(s, MsgDivideByZero), ret |-> Undefined]
    ELSE finishCalculation(s, prev, current,
             CASE s.operator = "+" -> NumAdd(prev, current)
               [] s.operator = "-" -> NumSub(prev, current)
               [] s.operator = "*" -> NumMul(prev, current)
               [] OTHER -> NumDiv(prev, current))

\* calculate() that records the last calculation again when nothing is
\* pending: the fault the idle equals of C32 has to exclude
calculateRepeating(s) ==
    IF s.isError THEN [s |-> s, ret |-> Undefined]
    ELSE IF s.operator = NullOp \/ s.previousInput = Null
         THEN [s |-> IF s.history = <<>> THEN s
                     ELSE updateDisplay(addToHistory(s, s.history[1].expression,
                                                     s.history[1].result)),
               ret |-> Undefined]
    ELSE calculateOperands(s, s.previousInput, ParseFloat(s.currentInput))

\* calculate(): the state it leaves (s) and the value it returns (ret)
calculate(s) ==
    IF s.isError \/ s.operator = NullOp \/ s.previousInput = Null
    THEN [s |-> s, ret |-> Undefined]
    ELSE calculateOperands(s, s.previousInput, ParseFloat(s.currentInput))

\* inputOperator that forgets to store what calculate() returned: the fault
\* the left-to-right commit of C2 has to exclude
commitWithoutOperand(c, operator) ==
    [c.s EXCEPT !.currentInput = formatResult(c.ret, c.s.maxDigits),
                !.waitingForOperand = TRUE,
                !.operator = operator]

\* inputOperator with an operator pending: c is what calculate() left and returned
commitPending(c, operator) ==
    [c.s EXCEPT !.currentInput = formatResult(c.ret, c.s.maxDigits),
                !.previousInput = c.ret,
                !.waitingForOperand = TRUE,
                !.operator = operator]

\* inputOperator without the isError test: the fault the error frame of C31
\* has to exclude
inputOperatorUnguarded(s, operator) ==
    IF s.previousInput = Null \/ s.operator = NullOp
    THEN [s EXCEPT !.previousInput = ParseFloat(s.currentInput),
                   !.waitingForOperand = TRUE,
                   !.operator = operator]
    ELSE commitPending(calculate(s), operator)

inputOperator(s, operator) ==
    IF s.isError THEN s
    ELSE IF s.previousInput = Null \/ s.operator = NullOp
         THEN [s EXCEPT !.previousInput = ParseFloat(s.currentInput),
                        !.waitingForOperand = TRUE,
                        !.operator = operator]
    ELSE commitPending(calculate(s), operator)

useHistoryItem(s, value) ==
    updateDisplay([s EXCEPT !.currentInput = value,
                            !.waitingForOperand = FALSE,
                            !.isError = FALSE])

storeValue(s, value) ==
    IF ~IsNaN(value) THEN [s EXCEPT !.memory = value, !.memoryActive = TRUE] ELSE s

memoryStore(s) == storeValue(s, ParseFloat(s.currentInput))

memoryRecall(s) ==
    IF s.memoryActive
    THEN updateDisplay([s EXCEPT !.currentInput = formatResult(s.memory, s.maxDigits),
                                 !.waitingForOperand = FALSE,
                                 !.isError = FALSE])
    ELSE s

addValue(s, value) ==
    IF ~IsNaN(value)
    THEN [s EXCEPT !.memory = NumAdd(s.memory, value), !.memoryActive = TRUE]
    ELSE s

memoryAdd(s) == addValue(s, ParseFloat(s.currentInput))

subtractValue(s, value) ==
    IF ~IsNaN(value)
    THEN [s EXCEPT !.memory = NumSub(s.memory, value), !.memoryActive = TRUE]
    ELSE s

memorySubtract(s) == subtractValue(s, ParseFloat(s.currentInput))

memoryClear(s) == [s EXCEPT !.memory = Zero, !.memoryActive = FALSE]

\* a unary operation that consumes the pending binary operation: the fault the
\* frame of C14 has to exclude
showUnaryResultConsuming(s, result) ==
    updateDisplay([s EXCEPT !.currentInput = formatResult(result, s.maxDigits),
                            !.previousInput = Null,
                            !.operator = NullOp,
                            !.waitingForOperand = TRUE])

\* the common tail of the unary operations
showUnaryResult(s, result) ==
    updateDisplay([s EXCEPT !.currentInput = formatResult(result, s.maxDigits),
                            !.waitingForOperand = TRUE])

percentageOf(s, value) ==
    IF ~IsNaN(value) THEN showUnaryResult(s, NumDiv(value, Pow10(2))) ELSE s

calculatePercentage(s) == percentageOf(s, ParseFloat(s.currentInput))

\* square root without its domain guard: the fault the guards of C15 have to
\* exclude
squareRootUnguarded(s, value) ==
    IF ~IsNaN(value) THEN showUnaryResult(s, NumSqrt(value)) ELSE s

squareRootOf(s, value) ==
    IF ~IsNaN(value) /\ ~NumIsNeg(value) THEN showUnaryResult(s, NumSqrt(value))
    ELSE IF NumIsNeg(value) THEN showError(s, MsgInvalidInput)
    ELSE s

calculateSquareRoot(s) == squareRootOf(s, ParseFloat(s.currentInput))

squareOf(s, value) ==
    IF ~IsNaN(value) THEN showUnaryResult(s, NumMul(value, value)) ELSE s

calculateSquare(s) == squareOf(s, ParseFloat(s.currentInput))

cubeOf(s, value) ==
    IF ~IsNaN(value) THEN showUnaryResult(s, NumMul(NumMul(value, value), value)) ELSE s

calculateCube(s) == cubeOf(s, ParseFloat(s.currentInput))

reciprocalOf(s, value) ==
    IF ~IsNaN(value) /\ ~IsZero(value) THEN showUnaryResult(s, NumDiv(Pow10(0), value))
    ELSE IF IsZero(value) THEN showError(s, MsgDivideByZero)
    ELSE s

calculateReciprocal(s) == reciprocalOf(s, ParseFloat(s.currentInput))

\* the constructor, run for a new instance on a page reload.  sessionStorage
\* outlives the page; loadSettings reads what saveSettings wrote, which is the
\* precision and history limit in force (both change handlers save them); the
\* timers and the rendered page do not outlive it.  loadHistory is not called
construct(s) ==
    [s EXCEPT !.currentInput = <<"0">>,
              !.previousInput = Null,
              !.operator = NullOp,
              !.waitingForOperand = FALSE,
              !.hasDecimal = FALSE,
              !.isError = FALSE,
              !.memory = Zero,
              !.memoryActive = FALSE,
              !.history = <<>>,
              !.historyVisible = FALSE,
              !.historyList = <<>>,
              !.timers = <<>>,
              !.pendingDisplayUpdate = TRUE,
              !.displayText = <<"0">>,
              !.displayInvalid = FALSE]

loadHistory(s) == IF s.stored.present THEN [s EXCEPT !.history = s.stored.items] ELSE s

clearHistory(s) == updateHistoryDisplay(saveHistory([s EXCEPT !.history = <<>>]))

toggleHistory(s) ==
    LET s1 == [s EXCEPT !.historyVisible = ~@]
    IN  IF s1.historyVisible THEN updateHistoryDisplay(loadHistory(s1)) ELSE s1

\* precisionSelect change handler
changePrecision(s, value) == [s EXCEPT !.maxDigits = value]

\* historyLimitSelect change handler
changeHistoryLimit(s, value) ==
    [s EXCEPT !.historyLimit = value,
              !.history = IF Len(@) > value THEN SubSeq(@, 1, value) ELSE @]

\* performAction(action); toggle-settings changes no field of the model
performAction(s, action) ==
    CASE action = "clear" -> clear(s)
      [] action = "clear-entry" -> clearEntry(s)
      [] action = "backspace" -> backspace(s)
      [] action = "decimal" -> inputDecimal(s)
      [] action = "equals" -> calculate(s).s
      [] action = "memory-store" -> memoryStore(s)
      [] action = "memory-recall" -> memoryRecall(s)
      [] action = "memory-add" -> memoryAdd(s)
      [] action = "memory-subtract" -> memorySubtract(s)
      [] action = "memory-clear" -> memoryClear(s)
      [] action = "percentage" -> calculatePercentage(s)
      [] action = "square-root" -> calculateSquareRoot(s)
      [] action = "square" -> calculateSquare(s)
      [] action = "cube" -> calculateCube(s)
      [] action = "reciprocal" -> calculateReciprocal(s)
      [] action = "toggle-history" -> toggleHistory(s)
      [] OTHER -> s

\* handleKeyboard on a focused calculator.  event is [key, ctrl, shift]: key is
\* event.key, ctrl is event.ctrlKey || event.metaKey, shift is event.shiftKey.
\* The digit branch returns; the switch on the key does not
keyDigit(s, key) ==
    IF ~validateInputLength(IF s.waitingForOperand THEN <<key>>
                            ELSE s.currentInput \o <<key>>, s.maxDigits)
    THEN showError(s, MsgInputTooLong)
    ELSE inputNumber(s, key)

\* the action the switch on the key performs, "none" for a key without one
keyAction(event) ==
    CASE event.key \in {"=", "Enter"} -> "equals"
      [] event.key = "." -> "decimal"
      [] event.key = "Escape" -> "clear"
      [] event.key = "Backspace" -> "backspace"
      [] event.key = "Delete" -> "clear-entry"
      [] event.key = "%" -> "percentage"
      [] event.key \in {"r", "R"} -> "square-root"
      [] event.key \in {"s", "S"} -> "square"
      [] event.key \in {"c", "C"} -> IF ~event.ctrl THEN "clear" ELSE "none"
      [] event.key \in {"i", "I"} -> "reciprocal"
      [] event.key \in {"m", "M"} ->
            IF event.shift THEN "memory-store" ELSE "memory-recall"
      [] OTHER -> "none"

keySwitch(s, event) ==
    IF event.key \in {"+", "-", "*", "/"} THEN inputOperator(s, event.key)
    ELSE performAction(s, keyAction(event))

\* the block "Memory functions with Ctrl/Cmd modifiers", on key.toLowerCase()
ctrlAction(key) ==
    CASE key \in {"m", "M"} -> "memory-store"
      [] key = "=" -> "memory-add"
      [] key = "-" -> "memory-subtract"
      [] key = "0" -> "memory-clear"
      [] OTHER -> "none"

\* what follows the switch: the cube key, which returns, and the Ctrl/Cmd block
keyModifiers(s, event) ==
    IF event.key \in {"x", "X"} /\ ~event.ctrl /\ ~event.shift THEN calculateCube(s)
    ELSE IF event.ctrl THEN performAction(s, ctrlAction(event.key))
    ELSE s

handleKeyboard(s, event) ==
    IF IsDigitChar(event.key) THEN keyDigit(s, event.key)
    ELSE keyModifiers(keySwitch(s, event), event)

(***************************************************************************)
(* The service worker (sw.js).  w holds its cache (the version of each URL  *)
(* it has cached, 0 for none), the version each URL has on the network,     *)
(* whether the network can be reached, whether the worker is installed and  *)
(* whether it is active, the names of the caches of the origin and the      *)
(* response to the last request.  Each handler is one step: the promise     *)
(* chain of an event is not interleaved with other events.                  *)
(***************************************************************************)
MaxVersion == 2
CacheName == "calculator-v1.0.0"
\* caches an earlier deployment of the site may have left on the origin
StaleCacheNames == {"calculator-v0.9.0", "calculator-v0.8.0"}
StaticCacheUrls == {"/index.html", "/assets/js/calculator.js"}
SwUrls == StaticCacheUrls \cup {"/tests/report.html", "https://cdn.example/lib.js"}
SwRequests ==
    {[url |-> "/index.html", method |-> "GET", origin |-> "self", destination |-> "document"],
     [url |-> "/index.html", method |-> "POST", origin |-> "self", destination |-> "document"],
     [url |-> "/assets/js/calculator.js", method |-> "GET", origin |-> "self", destination |-> "script"],
     [url |-> "/tests/report.html", method |-> "GET", origin |-> "self", destination |-> "document"],
     [url |-> "https://cdn.example/lib.js", method |-> "GET", origin |-> "other", destination |-> "script"]}

\* the worker registered by the page and not yet installed
SwRegistered ==
    [cache |-> [u \in SwUrls |-> 0],
     network |-> [u \in SwUrls |-> 1],
     online |-> TRUE,
     installed |-> FALSE,
     active |-> FALSE,
     caches |-> {},
     response |-> [url |-> "", source |-> "none", version |-> 0]]

\* install: cache.addAll(STATIC_CACHE_URLS) caches all of them or none; the
\* catch at the end of the chain lets the installation succeed either way
swInstall(w) ==
    [w EXCEPT !.installed = TRUE,
              !.caches = @ \cup {CacheName},
              !.cache = IF w.online
                        THEN [u \in SwUrls |-> IF u \in StaticCacheUrls
                                               THEN w.network[u] ELSE @[u]]
                        ELSE @]

\* an activation that deletes every cache, the current one included: the fault
\* the cache clean-up of C38 has to exclude
swActivateDeletingAll(w) == [w EXCEPT !.active = TRUE, !.caches = {}]

\* activate: every cache caches.keys() lists under another name is deleted,
\* then clients.claim() makes the worker control the page
swActivate(w) ==
    [w EXCEPT !.active = TRUE,
              !.caches = {cacheName \in @ : cacheName = CacheName}]

\* the requests the fetch listener answers: GET, same origin (or the fonts)
swHandles(request) == request.method = "GET" /\ request.origin \in {"self", "fonts"}

\* fetch(request): the network's version, or a failure
swNetwork(w, request) ==
    IF w.online
    THEN [url |-> request.url, source |-> "network", version |-> w.network[request.url]]
    ELSE [url |-> request.url, source |-> "error", version |-> 0]

\* the fetch listener, which receives the requests once the worker is active;
\* a request it does not answer goes to the network
swFetch(w, request) ==
    IF ~w.active \/ ~swHandles(request)
    THEN [w EXCEPT !.response = swNetwork(w, request)]
    ELSE IF w.cache[request.url] # 0
    THEN [w EXCEPT !.response = [url |-> request.url, source |-> "cache",
                                 version |-> w.cache[request.url]]]
    ELSE IF w.online
    THEN [w EXCEPT !.response = swNetwork(w, request),
                   !.caches = IF request.origin = "self" THEN @ \cup {CacheName} ELSE @,
                   !.cache[request.url] = IF request.origin = "self"
                                          THEN w.network[request.url] ELSE @]
    ELSE IF request.destination = "document" /\ w.cache["/index.html"] # 0
    THEN [w EXCEPT !.response = [url |-> request.url, source |-> "cache",
                                 version |-> w.cache["/index.html"]]]
    ELSE [w EXCEPT !.response = swNetwork(w, request)]

(***************************************************************************)
(* The state machine                                                       *)
(***************************************************************************)
VARIABLES currentInput, previousInput, operator, waitingForOperand, hasDecimal,
          isError, maxDigits, memory, memoryActive, history, historyLimit,
          historyVisible, historyList, stored, timers, pendingDisplayUpdate,
          displayText, displayInvalid, errorEpisode, sw, last, fuel

vars == <<currentInput, previousInput, operator, waitingForOperand, hasDecimal,
          isError, maxDigits, memory, memoryActive, history, historyLimit,
          historyVisible, historyList, stored, timers, pendingDisplayUpdate,
          displayText, displayInvalid, errorEpisode, sw, last, fuel>>

\* the instance's fields as one record
Cur ==
    [currentInput |-> currentInput, previousInput |-> previousInput,
     operator |-> operator, waitingForOperand |-> waitingForOperand,
     hasDecimal |-> hasDecimal, isError |-> isError, maxDigits |-> maxDigits,
     memory |-> memory, memoryActive |-> memoryActive, history |-> history,
     historyLimit |-> historyLimit, historyVisible |-> historyVisible,
     historyList |-> historyList, stored |-> stored, timers |-> timers,
     pendingDisplayUpdate |-> pendingDisplayUpdate, displayText |-> displayText,
     displayInvalid |-> displayInvalid, errorEpisode |-> errorEpisode]

\* the state a handler or callback leaves becomes the state; last remembers
\* what ran
Run(s, event) ==
    /\ last' = event
    /\ errorEpisode' = s.errorEpisode
    /\ currentInput' = s.currentInput
    /\ previousInput' = s.previousInput
    /\ operator' = s.operator
    /\ waitingForOperand' = s.waitingForOperand
    /\ hasDecimal' = s.hasDecimal
    /\ isError' = s.isError
    /\ maxDigits' = s.maxDigits
    /\ memory' = s.memory
    /\ memoryActive' = s.memoryActive
    /\ history' = s.history
    /\ historyLimit' = s.historyLimit
    /\ historyVisible' = s.historyVisible
    /\ historyList' = s.historyList
    /\ stored' = s.stored
    /\ timers' = s.timers
    /\ pendingDisplayUpdate' = s.pendingDisplayUpdate
    /\ displayText' = s.displayText
    /\ displayInvalid' = s.displayInvalid

\* one user event delivered to the page; fuel counts the events still to be
\* delivered
Deliver(s, event) ==
    /\ fuel > 0
    /\ fuel' = fuel - 1
    /\ sw' = sw
    /\ Run(s, event)

\* the state the constructor leaves: defaults, no saved settings, no saved history
Constructed ==
    /\ currentInput = <<"0">>
    /\ previousInput = Null
    /\ operator = NullOp
    /\ waitingForOperand = FALSE
    /\ hasDecimal = FALSE
    /\ isError = FALSE
    /\ maxDigits = 12
    /\ memory = Zero
    /\ memoryActive = FALSE
    /\ history = <<>>
    /\ historyLimit = 50
    /\ historyVisible = FALSE
    /\ historyList = <<>>
    /\ stored = [present |-> FALSE, items |-> <<>>]
    /\ timers = <<>>
    /\ errorEpisode = 0
    /\ pendingDisplayUpdate = TRUE
    /\ displayText = <<"0">>
    /\ displayInvalid = FALSE
    /\ sw = SwRegistered
    /\ last = <<"none", "">>

\* handleButtonClick on a button with data-number
InputNumber(number) ==
    Deliver(IF isValidNumber(number) THEN inputNumber(Cur, number) ELSE Cur,
            <<"number", number>>)

\* handleButtonClick on a button with data-operator
InputOperator(op) ==
    Deliver(IF isValidOperator(op) THEN inputOperator(Cur, op) ELSE Cur,
            <<"operator", op>>)

\* performAction dispatch
InputDecimal == Deliver(inputDecimal(Cur), <<"action", "decimal">>)
Equals == Deliver(calculate(Cur).s, <<"action", "equals">>)
Clear == Deliver(clear(Cur), <<"action", "clear">>)
ClearEntry == Deliver(clearEntry(Cur), <<"action", "clear-entry">>)
Backspace == Deliver(backspace(Cur), <<"action", "backspace">>)
MemoryStore == Deliver(memoryStore(Cur), <<"action", "memory-store">>)
MemoryRecall == Deliver(memoryRecall(Cur), <<"action", "memory-recall">>)
MemoryAdd == Deliver(memoryAdd(Cur), <<"action", "memory-add">>)
MemorySubtract == Deliver(memorySubtract(Cur), <<"action", "memory-subtract">>)
MemoryClear == Deliver(memoryClear(Cur), <<"action", "memory-clear">>)
Percentage == Deliver(calculatePercentage(Cur), <<"action", "percentage">>)
SquareRoot == Deliver(calculateSquareRoot(Cur), <<"action", "square-root">>)
Square == Deliver(calculateSquare(Cur), <<"action", "square">>)
Cube == Deliver(calculateCube(Cur), <<"action", "cube">>)
Reciprocal == Deliver(calculateReciprocal(Cur), <<"action", "reciprocal">>)
ToggleHistory == Deliver(toggleHistory(Cur), <<"action", "toggle-history">>)

\* a click on the i-th rendered history item while the panel is open
UseHistoryItem(i) ==
    /\ historyVisible
    /\ i \in 1..Len(historyList)
    /\ historyList[i] # <<>>
    /\ Deliver(useHistoryItem(Cur, historyList[i]), <<"history-item", "">>)

ClearHistory ==
    /\ historyVisible
    /\ Deliver(clearHistory(Cur), <<"clear-history", "">>)

ChangePrecision(value) == Deliver(changePrecision(Cur, value), <<"precision", "">>)
ChangeHistoryLimit(value) ==
    Deliver(changeHistoryLimit(Cur, value), <<"history-limit", "">>)

\* a keydown event on the focused calculator; last remembers the modifier
KeyDown(key, ctrl, shift) ==
    Deliver(handleKeyboard(Cur, [key |-> key, ctrl |-> ctrl, shift |-> shift]),
            <<IF ctrl THEN "ctrl" ELSE IF shift THEN "shift" ELSE "key", key>>)

\* inputOperator called as a method of the instance, the use the README
\* documents (calculator.inputOperator('+')): no handler validates the token
CallInputOperator(op) == Deliver(inputOperator(Cur, op), <<"inputOperator", op>>)

\* the page is reloaded in the same tab: a new instance over the same storage
Reload == Deliver(construct(Cur), <<"reload", "">>)

\* an event of the service worker or of its environment: the page is not
\* involved
SwStep(w, event) ==
    /\ fuel > 0
    /\ fuel' = fuel - 1
    /\ sw' = w
    /\ Run(Cur, event)

SwInstall == ~sw.installed /\ SwStep(swInstall(sw), <<"install", "">>)
SwActivate == sw.installed /\ ~sw.active /\ SwStep(swActivate(sw), <<"activate", "">>)

\* a cache found on the origin when the worker is registered
SwStaleCache(name) ==
    /\ ~sw.installed
    /\ name \notin sw.caches
    /\ SwStep([sw EXCEPT !.caches = @ \cup {name}], <<"stale-cache", name>>)

SwFetch(request) == SwStep(swFetch(sw, request), <<"fetch", request.method>>)

\* the site publishes a new version of a resource
SwPublish(url) ==
    /\ sw.network[url] < MaxVersion
    /\ SwStep([sw EXCEPT !.network[url] = @ + 1], <<"publish", url>>)

\* the network becomes unreachable, or reachable again
SwConnectivity == SwStep([sw EXCEPT !.online = ~@], <<"connectivity", "">>)

\* the oldest armed showError timer expires: no user event is needed for it
ErrorTimeout ==
    /\ timers # <<>>
    /\ fuel' = fuel
    /\ sw' = sw
    /\ Run(errorTimeout(Cur), <<"timeout", "">>)

\* the scheduled animation-frame callback runs
AnimationFrame ==
    /\ pendingDisplayUpdate
    /\ Deliver(performDisplayUpdate(Cur), <<"frame", "">>)

\* the same callback run by the browser on its own: once requested, a frame
\* comes whether or not the user does anything
AnimationFrameCallback ==
    /\ pendingDisplayUpdate
    /\ fuel' = fuel
    /\ sw' = sw
    /\ Run(performDisplayUpdate(Cur), <<"frame", "">>)

(***************************************************************************)
(* Specifications.  Each one delivers events from its own alphabet.        *)
(***************************************************************************)
PrecisionOptions == {8, 10, 12, 15}
HistoryLimitOptions == {25, 50, 100}
OperatorTokens == {"+", "-", "*", "/"}

\* arithmetic: digits, decimal point, binary operators, equals, clear, timer
MaxSteps == 5
DigitTokens == {"0", "3"}
Init == Constructed /\ fuel = MaxSteps
Next ==
    \/ \E d \in DigitTokens : InputNumber(d)
    \/ \E op \in OperatorTokens : InputOperator(op)
    \/ InputDecimal
    \/ Equals
    \/ Clear
    \/ ErrorTimeout
Spec == Init /\ [][Next]_vars

\* the same events, with every armed timer callback eventually run (setTimeout
\* callbacks are run by the event loop once their delay has passed)
SpecTimers == Init /\ [][Next]_vars /\ WF_vars(ErrorTimeout)

\* typing: only digit and decimal tokens
MaxTypingSteps == 14
TypingDigits == {"0", "7"}
InitTyping == Constructed /\ fuel = MaxTypingSteps
NextTyping ==
    \/ \E d \in TypingDigits : InputNumber(d)
    \/ InputDecimal
SpecTyping == InitTyping /\ [][NextTyping]_vars

\* every handler of the page
MaxAllSteps == 4
InitAll == Constructed /\ fuel = MaxAllSteps
NextAll ==
    \/ \E d \in DigitTokens : InputNumber(d)
    \/ \E op \in OperatorTokens : InputOperator(op)
    \/ InputDecimal
    \/ Equals
    \/ Clear
    \/ ClearEntry
    \/ Backspace
    \/ MemoryStore
    \/ MemoryRecall
    \/ MemoryAdd
    \/ MemorySubtract
    \/ MemoryClear
    \/ Percentage
    \/ SquareRoot
    \/ Square
    \/ Cube
    \/ Reciprocal
    \/ ToggleHistory
    \/ \E i \in 1..MaxAllSteps : UseHistoryItem(i)
    \/ ClearHistory
    \/ \E value \in PrecisionOptions : ChangePrecision(value)
    \/ \E value \in HistoryLimitOptions : ChangeHistoryLimit(value)
    \/ ErrorTimeout
    \/ AnimationFrame
SpecAll == InitAll /\ [][NextAll]_vars

\* a value recalled into the display: a digit, the decimal point, percentage,
\* backspace and the memory keys
MaxRecallSteps == 6
InitRecall == Constructed /\ fuel = MaxRecallSteps
NextRecall ==
    \/ InputNumber("3")
    \/ InputDecimal
    \/ Percentage
    \/ Backspace
    \/ MemoryStore
    \/ MemoryRecall
SpecRecall == InitRecall /\ [][NextRecall]_vars

\* the unary operations on a typed or computed value, alone or with a
\* subtraction pending
MaxUnarySteps == 4
InitUnary == Constructed /\ fuel = MaxUnarySteps
NextUnary ==
    \/ InputNumber("3")
    \/ InputOperator("-")
    \/ Equals
    \/ Percentage
    \/ SquareRoot
    \/ Square
    \/ Cube
    \/ Reciprocal
SpecUnary == InitUnary /\ [][NextUnary]_vars

\* a value typed, stored, and recalled after a reset
MaxMemorySteps == 6
InitMemory == Constructed /\ fuel = MaxMemorySteps
NextMemory ==
    \/ \E d \in DigitTokens : InputNumber(d)
    \/ InputDecimal
    \/ MemoryStore
    \/ Clear
    \/ MemoryRecall
SpecMemory == InitMemory /\ [][NextMemory]_vars

\* a long chain 3 + 3 + 3 + ... : every + after the first is one successful
\* calculation; the history limit is chosen before the first key
MaxHistorySteps == 107
InitHistory == Constructed /\ fuel = MaxHistorySteps
NextHistory ==
    \/ \E value \in HistoryLimitOptions :
          last = <<"none", "">> /\ ChangeHistoryLimit(value)
    \/ (currentInput = <<"0">> \/ waitingForOperand) /\ InputNumber("3")
    \/ ~waitingForOperand /\ InputOperator("+")
SpecHistory == InitHistory /\ [][NextHistory]_vars

\* the chain 3 + 3 + 3 + ... again; once the history has as many entries as the
\* smallest limit, the history limit is changed and the history panel toggled
\* in any order
MaxPanelSteps == 56
InitPanel == Constructed /\ fuel = MaxPanelSteps
NextPanel ==
    \/ (currentInput = <<"0">> \/ waitingForOperand) /\ InputNumber("3")
    \/ ~waitingForOperand /\ InputOperator("+")
    \/ \E value \in HistoryLimitOptions :
          Len(history) >= 25 /\ ChangeHistoryLimit(value)
    \/ Len(history) >= 25 /\ ToggleHistory
SpecPanel == InitPanel /\ [][NextPanel]_vars

\* calculations, the history panel and page reloads in one tab session
MaxSessionSteps == 8
InitSession == Constructed /\ fuel = MaxSessionSteps
NextSession ==
    \/ InputNumber("3")
    \/ InputOperator("+")
    \/ Equals
    \/ ToggleHistory
    \/ Reload
SpecSession == InitSession /\ [][NextSession]_vars

\* operator tokens from the buttons and from direct calls of inputOperator,
\* whitelisted or not
MaxApiSteps == 4
ApiTokens == OperatorTokens \cup {"eval"}
InitApi == Constructed /\ fuel = MaxApiSteps
NextApi ==
    \/ \E d \in DigitTokens : InputNumber(d)
    \/ \E op \in ApiTokens : InputOperator(op)
    \/ \E op \in ApiTokens : CallInputOperator(op)
    \/ Equals
SpecApi == InitApi /\ [][NextApi]_vars

\* operands of up to twelve nines and one calculation on them, at each
\* precision: the precision is chosen before the first key, digits and
\* operators are delivered until the first calculation is recorded, equals
\* when an operation is pending
MaxOverflowSteps == 23
InitOverflow == Constructed /\ fuel = MaxOverflowSteps
NextOverflow ==
    \/ \E value \in PrecisionOptions :
          last = <<"none", "">> /\ ChangePrecision(value)
    \/ history = <<>> /\ InputNumber("9")
    \/ \E op \in {"+", "*"} : history = <<>> /\ InputOperator(op)
    \/ operator # NullOp /\ Equals
SpecOverflow == InitOverflow /\ [][NextOverflow]_vars

\* results for the formatter: two operands of nines with an optional decimal
\* point, added once, at each precision (chosen before the first
\* key).  Only keys that change the entry are pressed: a digit while the budget
\* has room, the point once per operand, an operator or equals after an operand
MaxFormatSteps == 13
InitFormat == Constructed /\ fuel = MaxFormatSteps
NextFormat ==
    \/ \E value \in PrecisionOptions :
          last = <<"none", "">> /\ ChangePrecision(value)
    \/ /\ history = <<>>
       /\ waitingForOperand \/ getDisplayLength(Cur) < maxDigits
       /\ InputNumber("9")
    \/ /\ history = <<>>
       /\ waitingForOperand \/ ~hasDecimal
       /\ InputDecimal
    \/ history = <<>> /\ ~waitingForOperand /\ InputOperator("+")
    \/ operator # NullOp /\ ~waitingForOperand /\ Equals
SpecFormat == InitFormat /\ [][NextFormat]_vars

\* a, op, b, = on integer operands: digits and one operator until the first
\* calculation, equals once the second operand is typed
MaxArithSteps == 7
ArithDigits == {"0", "2", "7"}
InitArith == Constructed /\ fuel = MaxArithSteps
NextArith ==
    \/ \E d \in ArithDigits : history = <<>> /\ InputNumber(d)
    \/ \E op \in OperatorTokens :
          operator = NullOp /\ history = <<>> /\ InputOperator(op)
    \/ operator # NullOp /\ ~waitingForOperand /\ Equals
SpecArith == InitArith /\ [][NextArith]_vars

\* the service worker: installation, requests, new versions on the site and
\* loss of the network
MaxWorkerSteps == 6
InitWorker == Constructed /\ fuel = MaxWorkerSteps
NextWorker ==
    \/ \E name \in StaleCacheNames : SwStaleCache(name)
    \/ SwInstall
    \/ SwActivate
    \/ \E request \in SwRequests : SwFetch(request)
    \/ \E url \in SwUrls : SwPublish(url)
    \/ SwConnectivity
SpecWorker == InitWorker /\ [][NextWorker]_vars

\* the keyboard: a digit, two operators, equals and the memory keys, plain,
\* with Shift or with Ctrl/Cmd
MaxKeySteps == 4
ShortcutKeys == {"0", "3", "+", "-", "=", "m"}
InitKeyboard == Constructed /\ fuel = MaxKeySteps
NextKeyboard ==
    \/ \E key \in ShortcutKeys : KeyDown(key, FALSE, FALSE)
    \/ \E key \in ShortcutKeys : KeyDown(key, TRUE, FALSE)
    \/ KeyDown("M", FALSE, TRUE)
SpecKeyboard == InitKeyboard /\ [][NextKeyboard]_vars

\* rendering: digits, operators, equals and clear-entry, with the animation
\* frames and the error timers the browser runs; a requested frame and an
\* armed timer are eventually run
MaxDisplaySteps == 5
InitDisplay == Constructed /\ fuel = MaxDisplaySteps
NextDisplay ==
    \/ InputNumber("3")
    \/ \E op \in {"+", "/"} : InputOperator(op)
    \/ Equals
    \/ ClearEntry
    \/ ErrorTimeout
    \/ AnimationFrameCallback
SpecDisplay ==
    /\ InitDisplay
    /\ [][NextDisplay]_vars
    /\ WF_vars(ErrorTimeout)
    /\ WF_vars(AnimationFrameCallback)
(***************************************************************************)
(* Properties                                                              *)
(***************************************************************************)

\* C1: changing the operator before a second operand is typed performs no
\* calculation: an operator token delivered right after an operator token, in a
\* non-error state, leaves previousInput, currentInput and history as they are
\* and only sets operator to the new token.
C1_OperatorChange ==
    [][(last[1] = "operator" /\ ~isError /\ operator # NullOp /\ last'[1] = "operator")
       => /\ previousInput' = previousInput
          /\ currentInput' = currentInput
          /\ history' = history
          /\ operator' = last'[2]]_vars

\* C1 failing state: after 3, + and - the sum 3 + 3 has been calculated
C1_Witness ==
    /\ last = <<"operator", "-">>
    /\ operator = "-"
    /\ previousInput = NumOfInt(6)
    /\ currentInput = <<"6">>
    /\ Len(history) = 1
    /\ Head(history).expression = <<"3", " ", "+", " ", "3">>

\* the pending calculation of the current state: its right operand, its value,
\* whether calculate() raises no error on it, and the history entry it records
C2_Current == ParseFloat(currentInput)
C2_Value ==
    CASE operator = "+" -> NumAdd(previousInput, C2_Current)
      [] operator = "-" -> NumSub(previousInput, C2_Current)
      [] operator = "*" -> NumMul(previousInput, C2_Current)
      [] OTHER -> NumDiv(previousInput, C2_Current)
C2_Defined ==
    /\ ~IsNaN(previousInput)
    /\ ~IsNaN(C2_Current)
    /\ ~(operator = "/" /\ IsZero(C2_Current))
    /\ IsFinite(C2_Value)
C2_Entry ==
    [expression |-> buildExpression(previousInput, operator, C2_Current),
     result |-> C2_Value]
C2_SecondOperandTyped ==
    /\ ~isError
    /\ operator # NullOp
    /\ previousInput # Null
    /\ ~waitingForOperand
C2_Committed ==
    /\ previousInput' = C2_Value
    /\ currentInput' = formatResult(C2_Value, maxDigits)
    /\ history' = SubSeq(<<C2_Entry>> \o history, 1, Min(Len(history) + 1, historyLimit))
    /\ operator' = last'[2]
    /\ waitingForOperand' = TRUE
    /\ isError' = FALSE

\* C2 (amended): with an operator pending and a second operand typed, a further
\* operator token commits the pending operation when it has a finite result:
\* previousInput becomes that result, currentInput its formatted text, one entry
\* is put in front of the history, operator becomes the new token and
\* waitingForOperand is set; when the pending operation raises an error, the
\* engine is in the error state and no history entry is added.
C2_CommitLeftToRight ==
    [][(C2_SecondOperandTyped /\ last'[1] = "operator")
       => IF C2_Defined THEN C2_Committed
          ELSE isError' /\ history' = history]_vars

\* C2 witness: 3 / 30 has been committed by a + token
C2_Witness ==
    /\ last = <<"operator", "+">>
    /\ history # <<>>
    /\ Head(history).expression = <<"3", " ", "/", " ", "3", "0">>
    /\ previousInput = Head(history).result
    /\ currentInput = <<"0", ".", "1">>
    /\ operator = "+"
    /\ waitingForOperand
    /\ ~isError

\* C2 as stated: with an operator pending and a second operand typed, every
\* further operator token commits the pending operation.
C2_AlwaysCommits ==
    [][(C2_SecondOperandTyped /\ last'[1] = "operator") => C2_Committed]_vars

\* C3: equals with a division pending and a typed operand equal to zero puts the
\* engine in the error state showing "Cannot divide by zero", adds no history
\* entry and leaves previousInput and operator as they were; clear() from that
\* state restores the initial engine state.
C3_DivideByZeroEquals ==
    [][/\ (/\ ~isError
           /\ operator = "/"
           /\ IsFin(previousInput)
           /\ ~waitingForOperand
           /\ IsZero(ParseFloat(currentInput))
           /\ last' = <<"action", "equals">>)
          => /\ isError'
             /\ currentInput' = MsgDivideByZero
             /\ history' = history
             /\ previousInput' = previousInput
             /\ operator' = operator
       /\ (/\ isError
           /\ currentInput = MsgDivideByZero
           /\ last = <<"action", "equals">>
           /\ last' = <<"action", "clear">>)
          => /\ currentInput' = <<"0">>
             /\ previousInput' = Null
             /\ operator' = NullOp
             /\ waitingForOperand' = FALSE
             /\ hasDecimal' = FALSE
             /\ isError' = FALSE]_vars

\* C3 witness: a non-zero operand, division, 0 and equals have been delivered
\* and a further event (the clear) can still be delivered
C3_Witness ==
    /\ last = <<"action", "equals">>
    /\ isError
    /\ currentInput = MsgDivideByZero
    /\ operator = "/"
    /\ IsFin(previousInput)
    /\ ~IsZero(previousInput)
    /\ history = <<>>
    /\ fuel > 0

\* C4: whenever calculate() runs with a division pending and a zero current
\* operand, on equals or on an operator token, the engine ends in the error
\* state showing "Cannot divide by zero" with previousInput and operator as
\* they were.
C4_DivideByZeroKeepsOperands ==
    [][(/\ ~isError
        /\ operator = "/"
        /\ IsFin(previousInput)
        /\ ~waitingForOperand
        /\ IsZero(ParseFloat(currentInput))
        /\ (last'[1] = "operator" \/ last' = <<"action", "equals">>))
       => /\ isError'
          /\ currentInput' = MsgDivideByZero
          /\ previousInput' = previousInput
          /\ operator' = operator]_vars

\* C4 failing state: after 3, /, 0 and + the display reads "Error" and the left
\* operand and the pending division are gone
C4_Witness ==
    /\ last = <<"operator", "+">>
    /\ isError
    /\ currentInput = ErrorText
    /\ previousInput = Undefined
    /\ operator = "+"
    /\ fuel = MaxSteps - 4

\* C5: after any sequence of digit and decimal tokens from the initial state,
\* currentInput without its decimal point has at most maxDigits characters.
C5_TypingBudget == Len(RemoveChar(currentInput, ".")) <= maxDigits

\* C5 witness: the budget is used up and the last digit token was refused (an
\* accepted 0 would be the last character)
C5_Witness ==
    /\ Len(RemoveChar(currentInput, ".")) = maxDigits
    /\ last = <<"number", "0">>
    /\ currentInput[Len(currentInput)] = "7"

\* C6: in every reachable state that is not an error state, currentInput without
\* its decimal point has at most maxDigits characters.
C6_DigitBudget == ~isError => Len(RemoveChar(currentInput, ".")) <= maxDigits

\* C6 failing state: the result of 1/3 on display, then precision set to 8
C6_Witness ==
    /\ last = <<"precision", "">>
    /\ maxDigits = 8
    /\ ~isError
    /\ currentInput = <<"0", ".", "3", "3", "3", "3", "3", "3", "3", "3", "3", "3">>

\* C7: in every reachable state, hasDecimal is true exactly when currentInput
\* contains exactly one decimal point.
C7_HasDecimal == hasDecimal <=> CountChar(currentInput, ".") = 1

\* C7 failing state: 3 percent shows 0.03 with hasDecimal false
C7_Witness ==
    /\ last = <<"action", "percentage">>
    /\ currentInput = <<"0", ".", "0", "3">>
    /\ ~hasDecimal
    /\ ~isError

\* C8: in every reachable state that is not an error state, currentInput is a
\* partial or complete number literal: an optional sign, digits, at most one
\* decimal point with digits after it (none yet, in a partial literal), and an
\* optional exponent.
C8_NumberLiteral ==
    LET Digits(str) == \A i \in 1..Len(str) : IsDigitChar(str[i])
        Mantissa(str) ==
            \E i \in 1..Len(str) :
                /\ Digits(SubSeq(str, 1, i))
                /\ \/ i = Len(str)
                   \/ str[i + 1] = "." /\ Digits(SubSeq(str, i + 2, Len(str)))
        Exponent(str) ==
            /\ Len(str) >= 2
            /\ str[1] \in {"+", "-"}
            /\ Digits(Tail(str))
        Unsigned(str) ==
            \/ Mantissa(str)
            \/ \E i \in 2..Len(str) :
                /\ str[i] = "e"
                /\ Mantissa(SubSeq(str, 1, i - 1))
                /\ Exponent(SubSeq(str, i + 1, Len(str)))
    IN  ~isError =>
            /\ CountChar(currentInput, ".") <= 1
            /\ currentInput # <<>>
            /\ Unsigned(IF currentInput[1] = "-" THEN Tail(currentInput) ELSE currentInput)

\* C8 failing state: a second decimal point typed after 0.03 was recalled
C8_Witness ==
    /\ last = <<"action", "decimal">>
    /\ ~isError
    /\ currentInput = <<"0", ".", "0", "3", ".">>

\* C9: in every reachable state, operator is non-null exactly when previousInput
\* holds a left operand.
C9_OperatorHasOperand ==
    (operator # NullOp) <=> (previousInput # Null /\ previousInput # Undefined)

\* C9 failing state: an operator is pending and previousInput is undefined
C9_Witness == operator \in OperatorTokens /\ previousInput = Undefined

\* C10: in every reachable state, isError is true exactly when currentInput
\* holds an error message.
C10_ErrorFlag == isError <=> currentInput \in ErrorMessages

\* C10 failing state: clear-entry in the error state shows 0 with isError set
C10_Witness ==
    /\ last = <<"action", "clear-entry">>
    /\ isError
    /\ currentInput = <<"0">>

\* the engine fields of the initial Ready state, in the next state
ClearedNext ==
    /\ currentInput' = <<"0">>
    /\ previousInput' = Null
    /\ operator' = NullOp
    /\ waitingForOperand' = FALSE
    /\ hasDecimal' = FALSE
    /\ isError' = FALSE

\* C11: when every armed timer callback eventually runs, an engine in the error
\* state eventually leaves it even if no further token arrives, and a callback
\* that runs in the error state leaves the fields of the initial Ready state.
C11_AutoRecovery ==
    /\ isError ~> ~isError
    /\ [][(last' = <<"timeout", "">> /\ isError) => ClearedNext]_vars

\* C11 witness: two events raised one error and its timer has cleared it
C11_Witness ==
    /\ last = <<"timeout", "">>
    /\ errorEpisode = 1
    /\ fuel = MaxSteps - 2
    /\ timers = <<>>
    /\ ~isError
    /\ currentInput = <<"0">>

\* C12: a stale auto-clear callback does not clear a later error: a callback
\* armed by an earlier entry into the error state than the current one leaves
\* the error state and its message as they are.
C12_StaleTimer ==
    [][(last' = <<"timeout", "">> /\ isError /\ Head(timers) < errorEpisode)
       => (isError' /\ currentInput' = currentInput)]_vars

\* C12 failing state: five events raised an error, left it and raised a second
\* one; the first error's callback has run and the second error is gone while
\* its own timer is still armed
C12_Witness ==
    /\ last = <<"timeout", "">>
    /\ fuel = MaxSteps - 5
    /\ errorEpisode = 2
    /\ timers = <<2>>
    /\ ~isError

\* C13: an auto-clear callback that runs after the engine has left the error
\* state changes nothing: currentInput, previousInput, operator,
\* waitingForOperand, hasDecimal, memory and history stay as they are.
C13_LateTimer ==
    [][(last' = <<"timeout", "">> /\ ~isError)
       => /\ currentInput' = currentInput
          /\ previousInput' = previousInput
          /\ operator' = operator
          /\ waitingForOperand' = waitingForOperand
          /\ hasDecimal' = hasDecimal
          /\ isError' = isError
          /\ memory' = memory
          /\ memoryActive' = memoryActive
          /\ history' = history]_vars

\* C13 witness: the engine has left an error, 3 + has been typed, and the
\* error's callback has run since and left the input alone
C13_Witness ==
    /\ last = <<"timeout", "">>
    /\ errorEpisode = 1
    /\ timers = <<>>
    /\ ~isError
    /\ currentInput = <<"3">>
    /\ operator = "+"
    /\ previousInput = NumOfInt(3)

\* the unary operation an event names, on the displayed value: whether the code
\* computes a result for it, and that result
UnaryActions == {"percentage", "square-root", "square", "cube", "reciprocal"}
C14_InDomain(action, shown) ==
    /\ ~IsNaN(shown)
    /\ action = "square-root" => ~NumIsNeg(shown)
    /\ action = "reciprocal" => ~IsZero(shown)
C14_Result(action, shown) ==
    CASE action = "percentage" -> NumDiv(shown, Pow10(2))
      [] action = "square-root" -> NumSqrt(shown)
      [] action = "square" -> NumMul(shown, shown)
      [] action = "cube" -> NumMul(NumMul(shown, shown), shown)
      [] OTHER -> NumDiv(Pow10(0), shown)
C14_UnaryStep == last'[1] = "action" /\ last'[2] \in UnaryActions
C14_Shows(text, waiting) == currentInput' = text /\ waitingForOperand' = waiting

\* C14 (amended): a unary operation never changes previousInput or operator;
\* when it has a result, the display becomes that result as formatResult writes
\* it (rounded to ten decimals) and waitingForOperand is set, nothing else of the
\* engine changes, and the pending operation will use the displayed text.
C14_UnaryFrame ==
    [][C14_UnaryStep
       => /\ previousInput' = previousInput
          /\ operator' = operator
          /\ C14_InDomain(last'[2], ParseFloat(currentInput))
             => /\ C14_Shows(formatResult(C14_Result(last'[2], ParseFloat(currentInput)),
                                          maxDigits), TRUE)
                /\ hasDecimal' = hasDecimal
                /\ isError' = isError]_vars

\* C14 witness: 3 - 3 and square root: the subtraction is still pending on 3,
\* the display holds the root
C14_Witness ==
    /\ last = <<"action", "square-root">>
    /\ previousInput = NumOfInt(3)
    /\ operator = "-"
    /\ waitingForOperand
    /\ currentInput = <<"1", ".", "7", "3", "2", "0", "5", "0", "8", "0", "7", "6">>

\* C14 as stated: a unary operation applied to a value of its domain while a
\* binary operation is pending leaves previousInput and operator, sets
\* waitingForOperand, and the pending operation will compute with unary(b).
C14_ComputesUnary ==
    [][(C14_UnaryStep /\ ~isError /\ operator # NullOp
        /\ C14_InDomain(last'[2], ParseFloat(currentInput)))
       => /\ previousInput' = previousInput
          /\ operator' = operator
          /\ waitingForOperand' = TRUE
          /\ NumEq(ParseFloat(currentInput'),
                   C14_Result(last'[2], ParseFloat(currentInput)))]_vars

\* C18: clear() resets from any state: afterwards currentInput is "0",
\* previousInput and operator are null, waitingForOperand, isError and
\* hasDecimal are false, and memory, memoryActive and history are as before.
C18_ClearResets ==
    [][last' = <<"action", "clear">>
       => /\ ClearedNext
          /\ memory' = memory
          /\ memoryActive' = memoryActive
          /\ history' = history]_vars

\* C18 witness: clear has run with a calculation in the history and a value in
\* memory, and both are still there
C18_Witness ==
    /\ last = <<"action", "clear">>
    /\ history # <<>>
    /\ memoryActive
    /\ currentInput = <<"0">>
    /\ operator = NullOp
    /\ ~isError

\* what a unary domain guard leaves alone
C15_Frame ==
    /\ previousInput' = previousInput
    /\ operator' = operator
    /\ memory' = memory
    /\ memoryActive' = memoryActive
    /\ history' = history

\* C15: square root of a negative displayed value enters the error state with
\* "Invalid input", reciprocal of a displayed zero enters it with "Cannot divide
\* by zero"; previousInput, operator, memory and history stay as they are.
C15_DomainGuards ==
    [][/\ (last' = <<"action", "square-root">> /\ NumIsNeg(ParseFloat(currentInput)))
          => (isError' /\ currentInput' = MsgInvalidInput /\ C15_Frame)
       /\ (last' = <<"action", "reciprocal">> /\ IsZero(ParseFloat(currentInput)))
          => (isError' /\ currentInput' = MsgDivideByZero /\ C15_Frame)]_vars

\* C15 witness: the square root of a negative value has been refused (the only
\* other way to this message is a calculation on a display that is no number)
C15_Witness ==
    /\ last = <<"action", "square-root">>
    /\ isError
    /\ currentInput = MsgInvalidInput
    /\ errorEpisode = 1
    /\ fuel = MaxUnarySteps - 4

\* C16: memory survives a display clear.  Memory store on a displayed number v
\* makes memory = v and memoryActive true, clear changes neither memory nor
\* memoryActive, and memory recall on an active memory makes currentInput the
\* formatted memory: so store, clear, recall shows the formatted v.
C16_MemorySurvivesClear ==
    [][/\ (last' = <<"action", "memory-store">> /\ ~IsNaN(ParseFloat(currentInput)))
          => (memory' = ParseFloat(currentInput) /\ memoryActive')
       /\ last' = <<"action", "clear">>
          => (memory' = memory /\ memoryActive' = memoryActive)
       /\ (last' = <<"action", "memory-recall">> /\ memoryActive)
          => (/\ currentInput' = formatResult(memory, maxDigits)
              /\ memory' = memory
              /\ memoryActive')]_vars

\* C16 witness: 3.3 typed and stored, the display cleared (nothing else resets
\* hasDecimal), and the memory recalled
C16_Witness ==
    /\ last = <<"action", "memory-recall">>
    /\ memoryActive
    /\ memory = ParseFloat(<<"3", ".", "3">>)
    /\ currentInput = <<"3", ".", "3">>
    /\ ~hasDecimal
    /\ fuel = MaxMemorySteps - 6

C17_MemoryActions ==
    {"memory-store", "memory-recall", "memory-add", "memory-subtract", "memory-clear"}

\* C17: no memory operation (store, recall, add, subtract, clear) changes
\* isError, previousInput or operator, whatever the state it is invoked in.
C17_MemoryFrame ==
    [][(last'[1] = "action" /\ last'[2] \in C17_MemoryActions)
       => (/\ isError' = isError
           /\ previousInput' = previousInput
           /\ operator' = operator)]_vars

\* C17 witness: a memory recall in the error state has run
C17_Witness ==
    /\ last = <<"action", "memory-recall">>
    /\ memoryActive
    /\ errorEpisode = 1
    /\ timers # <<>>
    /\ fuel = MaxAllSteps - 3

\* C19: clear entry resets only the current entry.  Afterwards currentInput is
\* "0" and hasDecimal is false; previousInput, operator, waitingForOperand,
\* memory and history are as before, so the pending operation a op is still
\* there and the next operand typed is the one the calculation uses.
C19_ClearEntryResets ==
    [][last' = <<"action", "clear-entry">>
       => (/\ currentInput' = <<"0">>
           /\ hasDecimal' = FALSE
           /\ previousInput' = previousInput
           /\ operator' = operator
           /\ waitingForOperand' = waitingForOperand
           /\ memory' = memory
           /\ memoryActive' = memoryActive
           /\ history' = history)]_vars

\* C19 witness: a, op, b typed and the entry b cleared, the operation a op
\* still pending
C19_Witness ==
    /\ last = <<"action", "clear-entry">>
    /\ previousInput = NumOfInt(3)
    /\ operator = "+"
    /\ ~waitingForOperand
    /\ currentInput = <<"0">>
    /\ fuel = MaxAllSteps - 4

\* a step that is a successful calculation: a pending operation with its second
\* operand typed is committed by an operator token
C20_Calculation == C2_SecondOperandTyped /\ C2_Defined /\ last'[1] = "operator"

\* C20: the history never holds more than historyLimit entries, and a
\* successful calculation puts its entry first and keeps the most recent
\* historyLimit entries in their order: so with historyLimit + k calculations
\* done the history holds exactly historyLimit entries, most recent first, and
\* the k oldest are the ones missing.
C20_HistoryBound ==
    /\ [](Len(history) <= historyLimit)
    /\ [][C20_Calculation
          => history' = SubSeq(<<C2_Entry>> \o history, 1,
                               Min(Len(history) + 1, historyLimit))]_vars

\* C20 witness: with the default limit of 50, 52 calculations are done
\* (3 + 3 = 6 up to 156 + 3 = 159); the history is full, starts with the last
\* one and ends with the third, the two oldest being evicted
C20_Witness ==
    /\ historyLimit = 50
    /\ Len(history) = historyLimit
    /\ history[1].result = NumOfInt(159)
    /\ history[historyLimit].result = NumOfInt(12)
    /\ history[historyLimit].expression = <<"9", " ", "+", " ", "3">>

\* C21: in every reachable state the history holds at most historyLimit
\* entries, whatever the order of calculations, history-limit changes and
\* openings of the history panel.
C21_HistoryWithinLimit == Len(history) <= historyLimit

\* C21 failing state: the panel has been opened after the limit was lowered to
\* 25 with 26 entries in sessionStorage, and the history holds all 26
C21_Witness ==
    /\ last = <<"action", "toggle-history">>
    /\ historyVisible
    /\ historyLimit = 25
    /\ Len(history) = 26
    /\ Len(stored.items) = 26

\* C22: the calculation history persists in sessionStorage for the tab
\* session.  Every step, a page reload and the calculations after it included,
\* leaves the stored history as it is or puts one new entry in front of the
\* entries stored so far (up to historyLimit of them in all).
C22_StoredHistoryKept ==
    [][\/ stored' = stored
       \/ /\ stored'.items # <<>>
          /\ Tail(stored'.items) =
                SubSeq(stored.items, 1, Min(Len(stored.items), historyLimit - 1))]_vars

\* C22 failing state: a new instance after a reload, its history empty while
\* sessionStorage holds the entries recorded before the reload
C22_Witness ==
    /\ last = <<"reload", "">>
    /\ history = <<>>
    /\ stored.present
    /\ Len(stored.items) = 2
    /\ fuel > 2

\* the fields of the instance
C23_Fields ==
    <<currentInput, previousInput, operator, waitingForOperand, hasDecimal,
      isError, maxDigits, memory, memoryActive, history, historyLimit,
      historyVisible, historyList, stored, timers, pendingDisplayUpdate,
      displayText, displayInvalid>>

\* C23: an operator token outside the whitelist, submitted to inputOperator,
\* leaves the whole calculator state unchanged, and in every reachable state
\* operator is null or one of the four whitelisted symbols.
C23_Whitelist ==
    /\ [](operator = NullOp \/ isValidOperator(operator))
    /\ [][(last'[1] \in {"operator", "inputOperator"} /\ ~isValidOperator(last'[2]))
          => C23_Fields' = C23_Fields]_vars

\* the part of C23 the code has: a button whose data-operator is outside the
\* whitelist changes nothing
C23_ButtonGuard ==
    [][(last'[1] = "operator" /\ ~isValidOperator(last'[2]))
       => C23_Fields' = C23_Fields]_vars

\* C23 failing state: inputOperator has been called with a token outside the
\* whitelist, and that token is the pending operator
C23_Witness ==
    /\ last = <<"inputOperator", "eval">>
    /\ operator = "eval"
    /\ waitingForOperand

\* a pending operation whose result is finite and at least 10^maxDigits in
\* magnitude is about to be calculated, by equals or by a further operator
C24_Overflowing ==
    /\ ~isError
    /\ operator # NullOp
    /\ previousInput # Null
    /\ C2_Defined
    /\ ~IsZero(C2_Value)
    /\ TopExp(C2_Value) >= maxDigits
    /\ (last' = <<"action", "equals">> \/ last'[1] = "operator")

\* d.dddddde+x: one digit, a point, six digits and an exponent
C24_SixFractionalDigits(text) ==
    /\ Len(text) >= 11
    /\ text[2] = "."
    /\ \A i \in {1, 3, 4, 5, 6, 7, 8} : IsDigitChar(text[i])
    /\ text[9] = "e"
    /\ text[10] = "+"
    /\ \A i \in 11..Len(text) : IsDigitChar(text[i])

C25_Formatted == formatResult(history[1].result, maxDigits)

\* C25: formatting is idempotent.  For every finite result x and precision n,
\* format(parseNumber(format(x, n)), n) = format(x, n).
C25_Idempotent ==
    history # <<>>
    => formatResult(ParseFloat(C25_Formatted), maxDigits) = C25_Formatted

\* C25 failing state: 99999999 + 0.9 at precision 8 is shown as 100000000,
\* which formats to 1.000000e+8
C25_Witness ==
    /\ maxDigits = 8
    /\ history # <<>>
    /\ history[1].result = ParseFloat(<<"9", "9", "9", "9", "9", "9", "9", "9", ".", "9">>)
    /\ currentInput = <<"1", "0", "0", "0", "0", "0", "0", "0", "0">>
    /\ formatResult(ParseFloat(currentInput), maxDigits)
          = <<"1", ".", "0", "0", "0", "0", "0", "0", "e", "+", "8">>

\* C26: the formatter respects the precision limit.  For every finite result
\* below 10^maxDigits in magnitude, the string format(result, maxDigits) has at
\* most maxDigits characters.
C26_WithinPrecision ==
    (/\ history # <<>>
     /\ IsFin(history[1].result)
     /\ (IsZero(history[1].result) \/ TopExp(history[1].result) < maxDigits))
    => Len(formatResult(history[1].result, maxDigits)) <= maxDigits

\* C26 failing state: 9999999.9 at precision 8 is shown with nine characters
C26_Witness ==
    /\ maxDigits = 8
    /\ history # <<>>
    /\ last = <<"action", "equals">>
    /\ currentInput = <<"9", "9", "9", "9", "9", "9", "9", ".", "9">>
    /\ currentInput = formatResult(history[1].result, maxDigits)

\* integers, for the arithmetic the engine is compared with: the integer a
\* digit string or a whole double stands for, and the decimal string of an
\* integer
RECURSIVE C27_IntOfDigits(_)
C27_IntOfDigits(d) ==
    IF d = <<>> THEN 0 ELSE 10 * C27_IntOfDigits(SubSeq(d, 1, Len(d) - 1)) + d[Len(d)]

C27_IntOfChars(text) == C27_IntOfDigits([i \in 1..Len(text) |-> DigitOfChar(text[i])])

C27_IntOfNum(x) ==
    (IF x.neg THEN -1 ELSE 1) * C27_IntOfDigits(x.m) * 10^x.e

RECURSIVE C27_Chars(_)
C27_Chars(n) ==
    IF n < 0 THEN <<"-">> \o C27_Chars(-n)
    ELSE IF n < 10 THEN <<DigitChars[n + 1]>>
    ELSE C27_Chars(n \div 10) \o <<DigitChars[(n % 10) + 1]>>

\* a, op, b have been typed: a is the first operand, b the digits in the display
C27_A == C27_IntOfNum(previousInput)
C27_B == C27_IntOfChars(currentInput)
C27_Typed ==
    /\ ~isError
    /\ operator \in OperatorTokens
    /\ ~waitingForOperand
    /\ history = <<>>
    /\ IsFin(previousInput)
    /\ previousInput.e >= 0
    /\ \A i \in 1..Len(currentInput) : IsDigitChar(currentInput[i])
    /\ operator = "/" => (C27_B # 0 /\ C27_A % C27_B = 0)

C27_Expected ==
    CASE operator = "+" -> C27_A + C27_B
      [] operator = "-" -> C27_A - C27_B
      [] operator = "*" -> C27_A * C27_B
      [] OTHER -> C27_A \div C27_B

C28_NetworkFirst ==
    [][(/\ last' = <<"fetch", "GET">>
        /\ sw.active
        /\ sw.online
        /\ \E request \in SwRequests :
              request.url = sw'.response.url /\ swHandles(request))
       => (/\ sw'.response.source = "network"
           /\ sw'.response.version = sw.network[sw'.response.url])]_vars

\* C28 failing state: the network can be reached and has version 2 of
\* /index.html, and the request was answered with the cached version 1
C28_Witness ==
    /\ last = <<"fetch", "GET">>
    /\ sw.online
    /\ sw.response = [url |-> "/index.html", source |-> "cache", version |-> 1]
    /\ sw.network["/index.html"] = 2

\* the memory action the keyboard table gives for a key pressed with Ctrl/Cmd
C29_Listed(key) ==
    CASE key = "m" -> memoryStore(Cur)
      [] key = "=" -> memoryAdd(Cur)
      [] key = "-" -> memorySubtract(Cur)
      [] OTHER -> memoryClear(Cur)

\* C29: each Ctrl/Cmd memory shortcut does exactly the memory action of the
\* keyboard table: Ctrl+M stores the displayed value, Ctrl+= adds it, Ctrl+-
\* subtracts it, Ctrl+0 clears the memory; none of them changes currentInput,
\* previousInput, operator or history.
C29_MemoryShortcuts ==
    [][(last'[1] = "ctrl" /\ last'[2] \in {"m", "=", "-", "0"})
       => (/\ Cur' = C29_Listed(last'[2])
           /\ currentInput' = currentInput
           /\ previousInput' = previousInput
           /\ operator' = operator
           /\ history' = history)]_vars

\* C29 failing state: Ctrl+0 pressed with 3 in memory and on the display has
\* typed a 0 and left the memory as it was
C29_Witness ==
    /\ last = <<"ctrl", "0">>
    /\ memoryActive
    /\ memory = NumOfInt(3)
    /\ currentInput = <<"3", "0">>

\* C30: memory recall behaves like a result commit.  After memory recall with
\* an active memory, currentInput is the formatted memory and waitingForOperand
\* is true, so that the next digit replaces the recalled value.
C30_RecallCommits ==
    [][/\ (last' = <<"action", "memory-recall">> /\ memoryActive)
          => (/\ currentInput' = formatResult(memory, maxDigits)
              /\ waitingForOperand')
       /\ (last = <<"action", "memory-recall">> /\ memoryActive /\ last'[1] = "number")
          => currentInput' = <<last'[2]>>]_vars

\* C30 failing state: 3 has been recalled from the memory and the engine is
\* not waiting for an operand; the next digit will be appended to it
C30_Witness ==
    /\ last = <<"action", "memory-recall">>
    /\ memoryActive
    /\ memory = NumOfInt(3)
    /\ currentInput = <<"3">>
    /\ ~waitingForOperand
    /\ fuel > 0

\* C31: while isError is true, an operator token and an equals token are
\* no-ops: every field of the state is unchanged and no new auto-clear timer
\* is armed.
C31_ErrorNoOp ==
    [][(isError /\ (last'[1] = "operator" \/ last' = <<"action", "equals">>))
       => C23_Fields' = C23_Fields]_vars

\* C31 witness: an operator has been pressed during an error and no operator
\* is pending (an operator accepted outside an error is always pending
\* afterwards)
C31_Witness ==
    /\ isError
    /\ last[1] = "operator"
    /\ operator = NullOp
    /\ timers # <<>>

\* C32: equals with no pending operation is a no-op.  Whenever operator is
\* null or previousInput is null (in particular right after a successful
\* equals) an equals token changes no field of the state and adds no history
\* entry: pressing = again never repeats the last operation.
C32_IdleEquals ==
    [][(last' = <<"action", "equals">> /\ (operator = NullOp \/ previousInput = Null))
       => C23_Fields' = C23_Fields]_vars

\* C32 witness: = has been pressed again after a calculation was shown and
\* rendered; the display update is still not pending, which a calculating
\* equals would have requested, and the history holds the one entry
C32_Witness ==
    /\ last = <<"action", "equals">>
    /\ ~isError
    /\ ~pendingDisplayUpdate
    /\ Len(history) = 1
    /\ operator = NullOp
    /\ previousInput = Null
    /\ waitingForOperand

\* C33: the state after a successful calculate() triggered by equals:
\* currentInput is the formatted result, previousInput and operator are null,
\* waitingForOperand is true, isError is false, and exactly one entry
\* {expression, result} has been inserted at the head of the history.
C33_EqualsPostState ==
    [][(/\ ~isError
        /\ operator # NullOp
        /\ previousInput # Null
        /\ C2_Defined
        /\ last' = <<"action", "equals">>)
       => /\ currentInput' = formatResult(C2_Value, maxDigits)
          /\ previousInput' = Null
          /\ operator' = NullOp
          /\ waitingForOperand'
          /\ ~isError'
          /\ history' # <<>>
          /\ Head(history') = C2_Entry
          /\ Tail(history') = SubSeq(history, 1, Min(Len(history), historyLimit - 1))]_vars

\* C33 witness: 3, a multiplication sign and = : 3 x 3 has been calculated
C33_Witness ==
    /\ last = <<"action", "equals">>
    /\ fuel = MaxSteps - 3
    /\ currentInput = <<"9">>
    /\ previousInput = Null
    /\ operator = NullOp
    /\ waitingForOperand
    /\ ~isError
    /\ Len(history) = 1
    /\ Head(history).expression = <<"3", " ", "*", " ", "3">>
    /\ Head(history).result = NumOfInt(9)

\* C34: a digit token d received in a reachable error state first resets the
\* engine and is then applied: afterwards isError is false, currentInput is d,
\* previousInput and operator are null and waitingForOperand is false; the
\* length guard never rejects the digit because of the length of the error
\* message on the display (no error is raised, no timer is armed).
C34_DigitLeavesError ==
    [][(isError /\ last'[1] = "number")
       => /\ ~isError'
          /\ currentInput' = <<last'[2]>>
          /\ previousInput' = Null
          /\ operator' = NullOp
          /\ ~waitingForOperand'
          /\ ~hasDecimal'
          /\ timers' = timers]_vars

\* C34 witness: at precision 8 the reciprocal of 0 raised "Cannot divide by
\* zero" (21 characters) and, its timer still running, the digit 3 was typed
C34_Witness ==
    /\ last = <<"number", "3">>
    /\ fuel = MaxAllSteps - 3
    /\ maxDigits = 8
    /\ timers # <<>>
    /\ ~isError
    /\ currentInput = <<"3">>
    /\ previousInput = Null
    /\ operator = NullOp

\* the engine's fields and what is on the screen: everything but the request
\* for an animation frame, which updateDisplay makes whenever it is called
C35_Fields ==
    <<currentInput, previousInput, operator, waitingForOperand, hasDecimal,
      isError, maxDigits, memory, memoryActive, history, historyLimit,
      historyVisible, historyList, stored, timers, displayText, displayInvalid>>

\* the number of digit characters of the display
C35_DigitCount == Len(SelectSeq(currentInput, IsDigitChar))

\* C35: a digit typed when the display is full is silently ignored.  In a
\* non-error state with waitingForOperand false, currentInput other than "0"
\* and a digit count equal to maxDigits, a digit token leaves every field of
\* the state unchanged and does not enter the error state.
C35_FullDisplayIgnores ==
    [][(/\ ~isError
        /\ ~waitingForOperand
        /\ currentInput # <<"0">>
        /\ C35_DigitCount = maxDigits
        /\ last'[1] = "number")
       => C35_Fields' = C35_Fields /\ ~isError']_vars

\* C35 witness: twelve digits fill the display at the default precision and a
\* thirteenth has been typed
C35_Witness ==
    /\ last = <<"number", "7">>
    /\ fuel = MaxTypingSteps - 13
    /\ ~isError
    /\ ~hasDecimal
    /\ Len(currentInput) = maxDigits
    /\ C35_DigitCount = maxDigits

\* C36: backspace.  While isError it performs a full clear(); otherwise it
\* removes exactly the last character of currentInput (clearing hasDecimal
\* when that character was the decimal point), resets a one-character
\* currentInput to "0", never leaves currentInput empty, and never changes
\* previousInput, operator, memory or history.
C36_Backspace ==
    [][last' = <<"action", "backspace">>
       => IF isError
          THEN /\ currentInput' = <<"0">>
               /\ previousInput' = Null
               /\ operator' = NullOp
               /\ ~waitingForOperand'
               /\ ~hasDecimal'
               /\ ~isError'
               /\ <<memory, memoryActive, history>>' = <<memory, memoryActive, history>>
          ELSE /\ currentInput' = IF Len(currentInput) > 1
                                  THEN SubSeq(currentInput, 1, Len(currentInput) - 1)
                                  ELSE <<"0">>
               /\ hasDecimal' = (/\ hasDecimal
                                 /\ Len(currentInput) > 1
                                 /\ currentInput[Len(currentInput)] # ".")
               /\ currentInput' # <<>>
               /\ <<previousInput, operator, memory, memoryActive, history,
                    waitingForOperand, isError>>'
                  = <<previousInput, operator, memory, memoryActive, history,
                      waitingForOperand, isError>>]_vars

\* C36 witness: with an operator pending, 3 and one more character (a digit or
\* the decimal point) were typed and backspace has removed that character
C36_Witness ==
    /\ last = <<"action", "backspace">>
    /\ fuel = MaxAllSteps - 4
    /\ operator # NullOp
    /\ previousInput # Null
    /\ ~waitingForOperand
    /\ currentInput = <<"3">>
    /\ ~hasDecimal
    /\ ~isError

\* C37: while isError is true a unary operation (percentage, square root,
\* square, cube, reciprocal) changes no field of the state, whatever sequence
\* of tokens, clear-entry during the error included, led to that state.
C37_UnaryInError ==
    [][(isError /\ C14_UnaryStep) => C23_Fields' = C23_Fields]_vars

\* C37 failing state: the reciprocal of 0 raised an error, clear-entry put "0"
\* on the display with isError still set, and a second reciprocal raised the
\* error again: two timers are armed in one error episode
C37_Witness ==
    /\ last = <<"action", "reciprocal">>
    /\ fuel = MaxAllSteps - 3
    /\ isError
    /\ errorEpisode = 1
    /\ Len(timers) = 2
    /\ currentInput = MsgDivideByZero

\* C38: service-worker activation cleans up old caches.  Once the activate
\* handler's work is complete the only cache remaining is the one named by the
\* current CACHE_NAME: every cache with another name has been deleted, and the
\* current one is never deleted.
C38_ActivationCleansUp ==
    /\ [](sw.active => sw.caches = {CacheName})
    /\ [][/\ last' = <<"activate", "">> => sw'.caches = {CacheName}
          /\ CacheName \in sw.caches => CacheName \in sw'.caches]_vars

\* C38 witness: a cache of an earlier deployment was on the origin, the worker
\* was installed and activated (no request, no new version and no loss of the
\* network in between), and the current cache is the only one left
C38_Witness ==
    /\ last = <<"activate", "">>
    /\ fuel = MaxWorkerSteps - 3
    /\ sw.active
    /\ sw.online
    /\ sw.response.source = "none"
    /\ \A url \in SwUrls : sw.network[url] = 1
    /\ sw.caches = {CacheName}

\* what is on the screen agrees with the state
C39_Rendered ==
    /\ displayText = sanitizeOutput(currentInput)
    /\ displayInvalid = isError

\* C39: the rendered display is eventually consistent with the state.  Once
\* the requested animation frame has run the display text is the sanitized
\* currentInput and the error styling is on exactly when isError is true:
\* batching through pendingDisplayUpdate leaves no stale value on the screen,
\* and when no further token arrives the screen agrees with the state for good.
C39_DisplayConsistent ==
    /\ [](~pendingDisplayUpdate => C39_Rendered)
    /\ [](pendingDisplayUpdate => <>~pendingDisplayUpdate)
    /\ <>[]C39_Rendered

\* C39 witness: 3 + 3 was committed by a further operator token, which assigns
\* currentInput after calculate() requested the frame, and the frame has shown 6
C39_Witness ==
    /\ last = <<"frame", "">>
    /\ ~pendingDisplayUpdate
    /\ Len(history) = 1
    /\ operator = "+"
    /\ previousInput = NumOfInt(6)
    /\ currentInput = <<"6">>
    /\ displayText = <<"6">>
    /\ ~displayInvalid

====
